---- MODULE Spec2Model ----
(***************************************************************************)
(* A model of openquake/commonlib/source.py: the realization association   *)
(* (LtRealization, RlzsAssoc, CompositionInfo, CompositeSourceModel) and   *)
(* the TrtModel container.                                                 *)
(*                                                                         *)
(* Python floats are modelled as exact rationals <<num, den>>, strings as  *)
(* TLA+ strings, lists as sequences, dicts as functions on their key set,  *)
(* and object references (a realization is shared between the per-model    *)
(* lists and the reverse index) as indexes into a heap.                    *)
(***************************************************************************)
EXTENDS Integers, Sequences, FiniteSets, TLC

VARIABLES
    csm,     \* the CompositeSourceModel: source_model_lt, source_models, info
    assoc,   \* the RlzsAssoc returned by the last get_rlzs_assoc, or NoAssoc
    first,   \* the realization list returned by the first get_rlzs_assoc
    run,     \* how many times get_rlzs_assoc was called
    err,     \* the exception raised by the last call, "" when it returned
    comb,    \* the arguments of the combine/combine_curves call made
    out,     \* the value returned by the last call
    tm,      \* a TrtModel under update
    input,   \* the composite source model as it was constructed, or the
             \* arguments of its constructor while it is not built
    pair,    \* two LtRealization objects under comparison
    proc     \* the SourceProcessor at work: its arguments, tasks and outs

vars == <<csm, assoc, first, run, err, comb, out, tm, input, pair, proc>>

-----------------------------------------------------------------------------
(* Sequences and strings *)

Range(s) == {s[i] : i \in DOMAIN s}

RECURSIVE Flatten(_)
Flatten(ss) == IF ss = <<>> THEN <<>> ELSE Head(ss) \o Flatten(Tail(ss))

RECURSIVE SumSeq(_)
SumSeq(s) == IF s = <<>> THEN 0 ELSE Head(s) + SumSeq(Tail(s))

\* sep.join(strs)
RECURSIVE Join(_, _)
Join(strs, sep) ==
    IF strs = <<>> THEN ""
    ELSE IF Len(strs) = 1 THEN strs[1]
    ELSE strs[1] \o sep \o Join(Tail(strs), sep)

\* sorted(S) for a set of integers
RECURSIVE SortedInts(_)
SortedInts(S) ==
    IF S = {} THEN <<>>
    ELSE LET m == CHOOSE x \in S : \A y \in S : x <= y
         IN  <<m>> \o SortedInts(S \ {m})

\* a list given by its items: the sequence [i \in 1..n |-> e(i)], computed
List(s) == s \o <<>>

\* map(str, ints)
StrInts(s) == List([i \in DOMAIN s |-> ToString(s[i])])

-----------------------------------------------------------------------------
(* Floats as exact rationals <<num, den>>, den > 0, in lowest terms *)

Abs(n) == IF n < 0 THEN -n ELSE n

RECURSIVE GCD(_, _)
GCD(a, b) == IF b = 0 THEN a ELSE GCD(b, a % b)

RNorm(n, d) ==
    LET g == GCD(Abs(n), d)
    IN  IF n = 0 THEN <<0, 1>> ELSE <<n \div g, d \div g>>

RZero == <<0, 1>>
ROne == <<1, 1>>
RAdd(a, b) == RNorm(a[1] * b[2] + b[1] * a[2], a[2] * b[2])
RSub(a, b) == RNorm(a[1] * b[2] - b[1] * a[2], a[2] * b[2])
RMul(a, b) == RNorm(a[1] * b[1], a[2] * b[2])
RDiv(a, b) == RNorm(a[1] * b[2], a[2] * b[1])       \* b > 0
RLe(a, b) == a[1] * b[2] <= b[1] * a[2]
RLt(a, b) == a[1] * b[2] < b[1] * a[2]
RAbs(a) == <<Abs(a[1]), a[2]>>

RECURSIVE RSum(_)
RSum(s) == IF s = <<>> THEN RZero ELSE RAdd(Head(s), RSum(Tail(s)))

\* '%s' % weight: the digits of the float at the printed precision (here
\* four decimal places), so that floats closer than that print the same
FloatScale == 10000
StrFloat(w) == ToString((2 * w[1] * FloatScale + w[2]) \div (2 * w[2]))

\* d[k] = v on a dict
DictSet(d, k, v) == (k :> v) @@ d

EmptyDict == <<>>

-----------------------------------------------------------------------------
(* The GSIM logic tree (openquake.commonlib.logictree): the tree of the    *)
(* alternative GSIMs of each tectonic region type.  A path takes one       *)
(* branch per tectonic region type of the tree; reducing the tree to a     *)
(* subset of the types makes the branches of the other types ineffective.  *)

Branch(id, gsim, weight) == [id |-> id, gsim |-> gsim, weight |-> weight]

\* GsimLogicTree: all_trts in file order, the branches of each, and the
\* tectonic region types the tree is currently reduced to
GsimLt(all_trts, branches) ==
    [all_trts |-> all_trts, branches |-> branches,
     tectonic_region_types |-> Range(all_trts)]

\* gsim_lt.reduce(trts)
Reduce(gsim_lt, trts) == [gsim_lt EXCEPT !.tectonic_region_types = trts]

\* gsim_lt.values[trt]: the GSIMs of a tectonic region type
Values(gsim_lt, trt) ==
    List([i \in DOMAIN gsim_lt.branches[trt] |-> gsim_lt.branches[trt][i].gsim])

\* itertools.product(range(n1), range(n2), ...): the last index runs fastest
RECURSIVE Product(_)
Product(ns) ==
    IF ns = <<>> THEN << <<>> >>
    ELSE LET rest == Product(Tail(ns))
         IN  Flatten([i \in 1..Head(ns) |->
                        [j \in 1..Len(rest) |-> <<i>> \o rest[j]]])

RECURSIVE RProd(_)
RProd(s) == IF s = <<>> THEN ROne ELSE RMul(Head(s), RProd(Tail(s)))

\* the realization of the path taking branch p[k] of the k-th type
PathRlz(gsim_lt, p, ordinal) ==
    LET br(k) == gsim_lt.branches[gsim_lt.all_trts[k]][p[k]]
        ks == DOMAIN gsim_lt.all_trts
    IN  [value   |-> List([k \in ks |-> br(k).gsim]),
         weight  |-> RProd([k \in ks |-> br(k).weight]),
         lt_path |-> List([k \in ks |-> br(k).id]),
         ordinal |-> ordinal,
         lt_uid  |-> List([k \in ks |->
                        IF gsim_lt.all_trts[k] \in gsim_lt.tectonic_region_types
                        THEN br(k).id ELSE "@"])]

\* iter(gsim_lt): every path of the tree, once
IterRlzs(gsim_lt) ==
    LET ps == Product([k \in DOMAIN gsim_lt.all_trts |->
                         Len(gsim_lt.branches[gsim_lt.all_trts[k]])])
    IN  List([i \in DOMAIN ps |-> PathRlz(gsim_lt, ps[i], i - 1)])

\* Realization.uid
GsimUid(gsim_rlz) == Join(gsim_rlz.lt_uid, "_")

\* the realizations of rlzs with distinct uid, in order of first occurrence
RECURSIVE FirstByUid(_, _)
FirstByUid(rlzs, seen) ==
    IF rlzs = <<>> THEN <<>>
    ELSE IF GsimUid(Head(rlzs)) \in seen THEN FirstByUid(Tail(rlzs), seen)
    ELSE <<Head(rlzs)>> \o
         FirstByUid(Tail(rlzs), seen \cup {GsimUid(Head(rlzs))})

\* logictree.get_effective_rlzs: one realization per effective path, with
\* the summed weight of the paths it stands for; the path that is
\* ineffective for every type is no realization
get_effective_rlzs(gsim_lt) ==
    LET rlzs == IterRlzs(gsim_lt)
        firsts == FirstByUid(rlzs, {})
        eff == SelectSeq(firsts, LAMBDA r : \E k \in DOMAIN r.lt_uid :
                                               r.lt_uid[k] # "@")
        group(r) == SelectSeq(rlzs, LAMBDA q : GsimUid(q) = GsimUid(r))
    IN  List([i \in DOMAIN eff |->
                [eff[i] EXCEPT
                   !.weight = RSum([j \in DOMAIN group(eff[i]) |->
                                      group(eff[i])[j].weight]),
                   !.ordinal = i - 1]])

\* random.Random(seed): the generator's state after seeding
RndMod == 8
RndMul == 5
RndInc == 3
RandomSeeded(seed) == seed % RndMod
\* rnd.random(): the next state; the number drawn is state / RndMod
RandomNext(state) == (RndMul * state + RndInc) % RndMod

\* logictree.sample_one: the first path whose cumulated weight reaches dice
RECURSIVE sample_one(_, _, _)
sample_one(rlzs, dice, acc) ==
    IF Len(rlzs) = 1 \/ RLe(dice, RAdd(acc, Head(rlzs).weight))
    THEN Head(rlzs)
    ELSE sample_one(Tail(rlzs), dice, RAdd(acc, Head(rlzs).weight))

\* num_samples draws from the paths rlzs
RECURSIVE SampleFrom(_, _, _)
SampleFrom(rlzs, num_samples, state) ==
    IF num_samples = 0 THEN <<>>
    ELSE LET s1 == RandomNext(state)
         IN  <<sample_one(rlzs, <<s1, RndMod>>, RZero)>> \o
             SampleFrom(rlzs, num_samples - 1, s1)

\* logictree.sample(gsim_lt, num_samples, rnd): num_samples paths drawn
\* with repetition
sample(gsim_lt, num_samples, state) ==
    SampleFrom(IterRlzs(gsim_lt), num_samples, state)

\* gsim_lt.get_gsim_by_trt(gsim_rlz, trt)
get_gsim_by_trt(gsim_lt, gsim_rlz, trt) ==
    gsim_rlz.value[CHOOSE k \in DOMAIN gsim_lt.all_trts :
                       gsim_lt.all_trts[k] = trt]

-----------------------------------------------------------------------------
(* LtRealization *)

LtRealization(ordinal, sm_lt_path, gsim_rlz, weight, col_ids) ==
    [ordinal |-> ordinal, sm_lt_path |-> sm_lt_path, gsim_rlz |-> gsim_rlz,
     weight |-> weight, col_ids |-> col_ids]

\* LtRealization.uid
Uid(rlz) == Join(rlz.sm_lt_path, "_") \o "," \o GsimUid(rlz.gsim_rlz)

\* the collection part of the repr
ReprCol(rlz) ==
    IF rlz.col_ids # {}
    THEN ",col=" \o Join(StrInts(SortedInts(rlz.col_ids)), ",")
    ELSE ""

\* a slip: the ordinal is left out of the repr
ReprNoOrdinal(rlz) ==
    "<" \o Uid(rlz) \o ",w=" \o StrFloat(rlz.weight) \o ReprCol(rlz) \o ">"

\* LtRealization.__repr__
Repr(rlz) ==
    "<" \o ToString(rlz.ordinal) \o "," \o Uid(rlz) \o ",w=" \o
    StrFloat(rlz.weight) \o ReprCol(rlz) \o ">"

\* LtRealization.__eq__ and __ne__
RlzEq(a, b) == Repr(a) = Repr(b)
RlzNe(a, b) == Repr(a) # Repr(b)

\* hash(str): a function of the string alone, not injective
HashMod == 7
HashStr(s) == Len(s) % HashMod

\* LtRealization.__hash__
RlzHash(rlz) == HashStr(Repr(rlz))

-----------------------------------------------------------------------------
(* TrtModel and SourceModel *)

\* the tectonic region types, in alphabetical order
AllTrts == <<"T1", "T2">>

\* a hazardlib source, as far as TrtModel reads it; mags is what
\* get_min_max_mag() returns
Source(source_id, trt, min_mag, max_mag) ==
    [source_id |-> source_id, tectonic_region_type |-> trt,
     mags |-> <<min_mag, max_mag>>]

\* None is <<>> and a magnitude m is <<m>>
NoMag == <<>>

\* TrtModel.__init__ without initial sources
TrtModel(trt, num_ruptures, id) ==
    [trt |-> trt, sources |-> <<>>, num_ruptures |-> num_ruptures,
     min_mag |-> NoMag, max_mag |-> NoMag, gsims |-> <<>>, id |-> id]

\* TrtModel.update after its assertion: append and widen the magnitudes
UpdateAppend(t, src) ==
    LET min_mag == src.mags[1]
        max_mag == src.mags[2]
    IN  [t EXCEPT
           !.sources = Append(@, src),
           !.min_mag = IF @ = NoMag \/ min_mag < @[1] THEN <<min_mag>> ELSE @,
           !.max_mag = IF @ = NoMag \/ max_mag > @[1] THEN <<max_mag>> ELSE @]

\* a slip: the source is appended before its tectonic region is checked
UpdateAppendFirst(t, src) ==
    IF src.tectonic_region_type = t.trt
    THEN [t |-> UpdateAppend(t, src), err |-> ""]
    ELSE [t |-> [t EXCEPT !.sources = Append(@, src)],
          err |-> "AssertionError"]

\* TrtModel.update
Update(t, src) ==
    IF src.tectonic_region_type = t.trt
    THEN [t |-> UpdateAppend(t, src), err |-> ""]
    ELSE [t |-> t, err |-> "AssertionError"]

SourceModel(name, weight, path, trt_models, gsim_lt, ordinal, samples) ==
    [name |-> name, weight |-> weight, path |-> path,
     trt_models |-> trt_models, gsim_lt |-> gsim_lt, ordinal |-> ordinal,
     samples |-> samples]

\* get_skeleton(sm): the source model without its sources
get_skeleton(sm) ==
    [sm EXCEPT !.trt_models =
        List([k \in DOMAIN sm.trt_models |->
                [sm.trt_models[k] EXCEPT !.sources = <<>>]])]

-----------------------------------------------------------------------------
(* parse_source_model *)

\* a slip: the ids seen so far are not consulted
SeenIdNever(source_ids, src) == FALSE

\* src.source_id in source_ids
SeenId(source_ids, src) == src.source_id \in source_ids

\* the body of the loop on the source nodes, for one converted source.
\* st = [dict: source_stats_dict, source_ids, err]
ParseNode(st, src) ==
    IF SeenId(st.source_ids, src) THEN [st EXCEPT !.err = "DuplicatedID"]
    ELSE LET trt == src.tectonic_region_type
             d1 == IF trt \in DOMAIN st.dict THEN st.dict
                   ELSE DictSet(st.dict, trt, TrtModel(trt, 0, 0))
             r == Update(d1[trt], src)
         IN  [dict |-> DictSet(d1, trt, r.t),
              source_ids |-> st.source_ids \cup {src.source_id},
              err |-> r.err]

RECURSIVE ParseLoop(_, _)
ParseLoop(st, nodes) ==
    IF nodes = <<>> \/ st.err # "" THEN st
    ELSE ParseLoop(ParseNode(st, Head(nodes)), Tail(nodes))

\* trt < other.trt on the names of the tectonic region types
TrtLt(a, b) ==
    \E i, j \in DOMAIN AllTrts : i < j /\ AllTrts[i] = a /\ AllTrts[j] = b

\* TrtModel.__lt__: fewer sources first, then the trt
TrtModelLt(a, b) ==
    IF Len(a.sources) = Len(b.sources) THEN TrtLt(a.trt, b.trt)
    ELSE Len(a.sources) < Len(b.sources)

\* sorted(trt_models)
RECURSIVE SortedTrtModels(_)
SortedTrtModels(S) ==
    IF S = {} THEN <<>>
    ELSE LET m == CHOOSE x \in S : \A y \in S \ {x} : TrtModelLt(x, y)
         IN  <<m>> \o SortedTrtModels(S \ {m})

\* parse_source_model(fname, converter): [trt_models, err]
parse_source_model(nodes) ==
    LET st == ParseLoop([dict |-> EmptyDict, source_ids |-> {}, err |-> ""],
                        nodes)
    IN  IF st.err # "" THEN [trt_models |-> <<>>, err |-> st.err]
        ELSE [trt_models |-> SortedTrtModels(Range(st.dict)), err |-> ""]

-----------------------------------------------------------------------------
(* CompositionInfo *)

\* a slip: the collection id is not advanced
InfoSameColId(col_id) == col_id

\* col_id += 1
InfoNextColId(col_id) == col_id + 1

\* for idx in range(sm.samples): self._col_dict[trt_id, idx] = col_id
RECURSIVE InfoIdxLoop(_, _, _, _)
InfoIdxLoop(st, trt_id, idx, samples) ==
    IF idx >= samples THEN st
    ELSE InfoIdxLoop(
           [st EXCEPT !.col_dict = DictSet(@, <<trt_id, idx>>, st.col_id),
                      !.col_id = InfoNextColId(@)],
           trt_id, idx + 1, samples)

\* a slip: collections are allocated for oversampled source models only
InfoTrtModelOversampled(st, sm, trt_model) ==
    IF sm.samples > 1
    THEN InfoIdxLoop([st EXCEPT !.num_samples =
                         DictSet(@, trt_model.id, sm.samples)],
                     trt_model.id, 0, sm.samples)
    ELSE st

\* the body of the loop on sm.trt_models, for one TrtModel
InfoTrtModel(st, sm, trt_model) ==
    LET trt_id == trt_model.id
        st1 == IF sm.samples > 1
               THEN [st EXCEPT !.num_samples = DictSet(@, trt_id, sm.samples)]
               ELSE st
    IN  InfoIdxLoop(st1, trt_id, 0, sm.samples)

RECURSIVE InfoTrtLoop(_, _, _)
InfoTrtLoop(st, sm, k) ==
    IF k > Len(sm.trt_models) THEN st
    ELSE InfoTrtLoop(InfoTrtModel(st, sm, sm.trt_models[k]), sm, k + 1)

RECURSIVE InfoSmLoop(_, _, _)
InfoSmLoop(st, source_models, m) ==
    IF m > Len(source_models) THEN st
    ELSE InfoSmLoop(InfoTrtLoop(st, source_models[m], 1), source_models, m + 1)

\* CompositionInfo.__init__
CompositionInfo(source_models) ==
    LET st == InfoSmLoop([col_dict |-> EmptyDict, num_samples |-> EmptyDict,
                          col_id |-> 0], source_models, 1)
    IN  [col_dict |-> st.col_dict,
         num_samples |-> st.num_samples,
         source_models |-> List([m \in DOMAIN source_models |->
                                   get_skeleton(source_models[m])]),
         num_collections |-> st.col_id]

\* CompositionInfo.get_col_id: the lookup fails on a missing key
HasColId(info, trt_id, idx) == <<trt_id, idx>> \in DOMAIN info.col_dict
InfoGetColId(info, trt_id, idx) == info.col_dict[<<trt_id, idx>>]

\* CompositionInfo.get_trt_id: the TrtModel ids the scan of _col_dict can
\* return for col_id (the iteration order of a dict is not fixed); none
\* means KeyError
InfoGetTrtIds(info, col_id) ==
    {k[1] : k \in {x \in DOMAIN info.col_dict : info.col_dict[x] = col_id}}

\* CompositionInfo.get_col_ids(rlz): the col_ids of the realization if it
\* has any, else the ids of the TrtModels of the source model of its path
InfoGetColIds(info, rlz) ==
    IF rlz.col_ids # {} THEN rlz.col_ids
    ELSE UNION {{sm.trt_models[k].id : k \in DOMAIN sm.trt_models} :
                  sm \in {x \in Range(info.source_models) :
                             x.path = rlz.sm_lt_path}}

\* CompositionInfo.get_num_samples
InfoGetNumSamples(info, trt_id) ==
    IF trt_id \in DOMAIN info.num_samples THEN info.num_samples[trt_id] ELSE 1

-----------------------------------------------------------------------------
(* RlzsAssoc.  The LtRealization objects live in heap; rlzs_assoc and      *)
(* rlzs_by_smodel hold references to them (indexes into heap).             *)

NoAssoc == [none |-> TRUE]

\* RlzsAssoc.__init__: rlzs_assoc is a defaultdict(list), rlzs_by_smodel an
\* OrderedDict (here a sequence of entries in insertion order)
RlzsAssocInit ==
    [rlzs_assoc |-> EmptyDict, gsim_by_trt |-> <<>>,
     rlzs_by_smodel |-> <<>>, heap |-> <<>>]

\* a slip: the list of the key is replaced instead of extended
AssocAppendReplace(rlzs_assoc, key, ref) == DictSet(rlzs_assoc, key, <<ref>>)

\* self.rlzs_assoc[key].append(ref)
AssocAppend(rlzs_assoc, key, ref) ==
    IF key \in DOMAIN rlzs_assoc
    THEN [rlzs_assoc EXCEPT ![key] = Append(@, ref)]
    ELSE DictSet(rlzs_assoc, key, <<ref>>)

\* a slip: the realizations of a source model are put before those of the
\* source models added so far
BySmodelSetFirst(by_smodel, ordinal, rlzs) ==
    <<[ordinal |-> ordinal, rlzs |-> rlzs]>> \o by_smodel

\* self.rlzs_by_smodel[ordinal] = rlzs on the OrderedDict: a key already
\* there keeps its place
BySmodelSet(by_smodel, ordinal, rlzs) ==
    IF \E j \in DOMAIN by_smodel : by_smodel[j].ordinal = ordinal
    THEN List([j \in DOMAIN by_smodel |->
                 IF by_smodel[j].ordinal = ordinal
                 THEN [ordinal |-> ordinal, rlzs |-> rlzs] ELSE by_smodel[j]])
    ELSE Append(by_smodel, [ordinal |-> ordinal, rlzs |-> rlzs])

\* the references of RlzsAssoc.realizations, the flat list
RealizationRefs(a) ==
    Flatten([j \in DOMAIN a.rlzs_by_smodel |-> a.rlzs_by_smodel[j].rlzs])

\* RlzsAssoc.realizations
Realizations(a) ==
    LET refs == RealizationRefs(a)
    IN  List([i \in DOMAIN refs |-> a.heap[refs[i]]])

\* dict(zip(gsim_lt.all_trts, gsim_rlz.value))
GsimByTrt(gsim_lt, gsim_rlz) ==
    LET zip(k) == gsim_lt.all_trts[k] :> gsim_rlz.value[k]
        RECURSIVE dict(_)
        dict(k) == IF k > Len(gsim_lt.all_trts) \/ k > Len(gsim_rlz.value)
                   THEN EmptyDict ELSE dict(k + 1) @@ zip(k)
    IN  dict(1)

\* a slip: every realization of an oversampled source model gets the
\* collection of the first sample
OversampledColIdFirst(info, trt_model, i) ==
    InfoGetColId(info, trt_model.id, 0)

\* the collection a TrtModel contributes to the i-th realization of an
\* oversampled source model
OversampledColId(info, trt_model, i) == InfoGetColId(info, trt_model.id, i)

\* _add_realizations: the body of the loop on lt_model.trt_models, for the
\* realization at heap[ref], the i-th of its source model.
\* st = [a: the RlzsAssoc, tms: the TrtModels, err]
AddTrtModel(st, info, lt_model, gsim_rlz, ref, i, k) ==
    LET trt_model == st.tms[k]
        trt == trt_model.trt
        gsim == get_gsim_by_trt(lt_model.gsim_lt, gsim_rlz, trt)
        a1 == [st.a EXCEPT
                 !.rlzs_assoc = AssocAppend(@, <<trt_model.id, gsim>>, ref)]
        tms1 == [st.tms EXCEPT ![k].gsims = Values(lt_model.gsim_lt, trt)]
    IN  IF lt_model.samples > 1
        THEN IF HasColId(info, trt_model.id, i)
             THEN [a |-> [a1 EXCEPT !.heap[ref].col_ids =
                            @ \cup {OversampledColId(info, trt_model, i)}],
                   tms |-> tms1, err |-> ""]
             ELSE [a |-> a1, tms |-> tms1, err |-> "KeyError"]
        ELSE [a |-> a1, tms |-> tms1, err |-> ""]

RECURSIVE AddTrtLoop(_, _, _, _, _, _, _)
AddTrtLoop(st, info, lt_model, gsim_rlz, ref, i, k) ==
    IF k > Len(st.tms) \/ st.err # "" THEN st
    ELSE AddTrtLoop(AddTrtModel(st, info, lt_model, gsim_rlz, ref, i, k),
                    info, lt_model, gsim_rlz, ref, i, k + 1)

\* the weight a realization is created with
InitialWeight(lt_model, gsim_rlz) == RMul(lt_model.weight, gsim_rlz.weight)

\* _add_realizations: the loop on the realizations, from the i-th on.
\* st = [a, tms, err, idx, rlzs: the references collected so far]
RECURSIVE AddRlzLoop(_, _, _, _, _)
AddRlzLoop(st, info, lt_model, realizations, i) ==
    IF i >= Len(realizations) \/ st.err # "" THEN st
    ELSE LET gsim_rlz == realizations[i + 1]
             rlz == LtRealization(st.idx, lt_model.path, gsim_rlz,
                                  InitialWeight(lt_model, gsim_rlz), {})
             ref == Len(st.a.heap) + 1
             a1 == [st.a EXCEPT
                      !.heap = Append(@, rlz),
                      !.gsim_by_trt =
                          Append(@, GsimByTrt(lt_model.gsim_lt, gsim_rlz))]
             st1 == AddTrtLoop([a |-> a1, tms |-> st.tms, err |-> ""],
                               info, lt_model, gsim_rlz, ref, i, 1)
         IN  AddRlzLoop([a |-> st1.a, tms |-> st1.tms, err |-> st1.err,
                         idx |-> IF st1.err = "" THEN st.idx + 1 ELSE st.idx,
                         rlzs |-> IF st1.err = "" THEN Append(st.rlzs, ref)
                                  ELSE st.rlzs],
                        info, lt_model, realizations, i + 1)

\* RlzsAssoc._add_realizations(idx, lt_model, realizations):
\* [a, tms, err, idx]
AddRealizations(a, info, idx, lt_model, realizations) ==
    LET st == AddRlzLoop([a |-> a, tms |-> lt_model.trt_models, err |-> "",
                          idx |-> idx, rlzs |-> <<>>],
                         info, lt_model, realizations, 0)
    IN  [a   |-> IF st.err = ""
                 THEN [st.a EXCEPT !.rlzs_by_smodel =
                         BySmodelSet(@, lt_model.ordinal, st.rlzs)]
                 ELSE st.a,
         tms |-> st.tms, err |-> st.err, idx |-> st.idx]

-----------------------------------------------------------------------------
(* CompositeSourceModel *)

\* CompositeSourceModel.__init__
CompositeSourceModel(source_model_lt, source_models) ==
    [source_model_lt |-> source_model_lt,
     source_models |-> source_models,
     info |-> CompositionInfo(source_models),
     source_info |-> <<>>]

\* the default get_weight of get_rlzs_assoc
GetWeight(trt_model) == trt_model.num_ruptures

\* the tectonic region types of a source model with a positive weight
LiveTrts(smodel) ==
    {smodel.trt_models[k].trt : k \in
        {j \in DOMAIN smodel.trt_models : GetWeight(smodel.trt_models[j]) > 0}}

\* a slip: the seed also depends on how often the association was built
SeedOfCall(random_seed, idx) == random_seed + idx + run

\* a slip: every source model is sampled with the seed of the job
SeedOfJob(random_seed, idx) == random_seed

\* the seed of the generator that samples a source model
SeedOf(random_seed, idx) == random_seed + idx

\* the realizations of a source model: sampled, or fully enumerated
ModelRlzs(source_model_lt, gsim_lt, samples, idx) ==
    IF source_model_lt.num_samples # 0
    THEN sample(gsim_lt, samples,
                RandomSeeded(SeedOf(source_model_lt.seed, idx)))
    ELSE get_effective_rlzs(gsim_lt)

\* a slip: a source model without realizations is added as well
HasRlzsAlways(rlzs) == TRUE

\* if rlzs
HasRlzs(rlzs) == rlzs # <<>>

\* get_rlzs_assoc: the body of the loop on the source models, for the m-th.
\* st = [a, sms: the source models, idx, err]
GetRlzsModel(st, source_model_lt, info, m) ==
    LET smodel == st.sms[m]
        trts == LiveTrts(smodel)
        gsim_lt == IF trts # smodel.gsim_lt.tectonic_region_types
                   THEN Reduce(smodel.gsim_lt, trts) ELSE smodel.gsim_lt
        sm1 == [smodel EXCEPT !.gsim_lt = gsim_lt]
        rlzs == ModelRlzs(source_model_lt, gsim_lt, smodel.samples, st.idx)
        r == AddRealizations(st.a, info, st.idx, sm1, rlzs)
    IN  IF HasRlzs(rlzs)
        THEN [a |-> r.a,
              sms |-> [st.sms EXCEPT ![m] = [sm1 EXCEPT !.trt_models = r.tms]],
              idx |-> r.idx, err |-> r.err]
        ELSE [a |-> st.a, sms |-> [st.sms EXCEPT ![m] = sm1],
              idx |-> st.idx, err |-> ""]

RECURSIVE GetRlzsLoop(_, _, _, _)
GetRlzsLoop(st, source_model_lt, info, m) ==
    IF m > Len(st.sms) \/ st.err # "" THEN st
    ELSE GetRlzsLoop(GetRlzsModel(st, source_model_lt, info, m),
                     source_model_lt, info, m + 1)

\* rlz.weight = w[rlz] for rlz in assoc.realizations
SetWeights(a, w) ==
    LET refs == Range(RealizationRefs(a))
    IN  [a EXCEPT !.heap = List([h \in DOMAIN a.heap |->
                                   IF h \in refs
                                   THEN [a.heap[h] EXCEPT !.weight = w[h]]
                                   ELSE a.heap[h]])]

\* a slip: the weights are taken to sum to one already
TotWeightOne(a) == ROne

\* sum(rlz.weight for rlz in assoc.realizations)
TotWeight(a) ==
    LET rlzs == Realizations(a)
    IN  RSum([i \in DOMAIN rlzs |-> rlzs[i].weight])

\* a slip: the number of sampled realizations is not checked
SampleCountAny(rlzs, num_samples) == TRUE

\* the assertion on the number of sampled realizations
SampleCountOk(rlzs, num_samples) == Len(rlzs) = num_samples

\* a slip: the weights are summed even when there is no realization
NoRealizationsNever(rlzs) == FALSE

\* not assoc.realizations
NoRealizations(rlzs) == rlzs = <<>>

\* get_rlzs_assoc: the weights of the realizations, once all are known
Normalize(a, num_samples) ==
    LET rlzs == Realizations(a)
        tot_weight == TotWeight(a)
    IN  IF NoRealizations(rlzs) THEN [a |-> a, err |-> ""]
        ELSE IF num_samples # 0
        THEN IF SampleCountOk(rlzs, num_samples)
             THEN [a |-> SetWeights(a, [h \in DOMAIN a.heap |->
                                          RNorm(1, num_samples)]),
                   err |-> ""]
             ELSE [a |-> a, err |-> "AssertionError"]
        ELSE IF tot_weight = RZero THEN [a |-> a, err |-> "ValueError"]
        ELSE [a |-> SetWeights(a, [h \in DOMAIN a.heap |->
                                     RDiv(a.heap[h].weight, tot_weight)]),
              err |-> ""]

\* CompositeSourceModel.get_rlzs_assoc with the default get_weight:
\* [a: the RlzsAssoc, sms: the source models as the call leaves them, err]
get_rlzs_assoc(c) ==
    LET st == GetRlzsLoop([a |-> RlzsAssocInit, sms |-> c.source_models,
                           idx |-> 0, err |-> ""],
                          c.source_model_lt, c.info, 1)
        n == Normalize(st.a, c.source_model_lt.num_samples)
    IN  IF st.err # "" THEN [a |-> st.a, sms |-> st.sms, err |-> st.err]
        ELSE [a |-> n.a, sms |-> st.sms, err |-> n.err]

-----------------------------------------------------------------------------
(* RlzsAssoc.combine and combine_curves.  The AccumDict is keyed by the    *)
(* realizations, which hash and compare by their repr.                     *)

\* agg_prob(acc, prob)
agg_prob(acc, prob) == RSub(ROne, RMul(RSub(ROne, acc), RSub(ROne, prob)))

\* agg(acc, value) for the aggregation functions handed to combine:
\* operator.add, the mean of the two (commutative, not associative) and
\* agg_prob
Agg(agg, acc, value) ==
    IF agg = "add" THEN RAdd(acc, value)
    ELSE IF agg = "mean" THEN RDiv(RAdd(acc, value), <<2, 1>>)
    ELSE agg_prob(acc, value)

\* a slip: the value accumulated so far is not read
AdGetDefault(ad, rlz) == RZero

\* ad.get(rlz, 0)
AdGet(ad, rlz) == IF Repr(rlz) \in DOMAIN ad THEN ad[Repr(rlz)] ELSE RZero

\* self.rlzs_assoc[key] on the defaultdict(list): a missing key is inserted
\* with an empty list
AssocLookup(rlzs_assoc, key) ==
    IF key \in DOMAIN rlzs_assoc THEN rlzs_assoc
    ELSE DictSet(rlzs_assoc, key, <<>>)

\* a slip: only the first realization of a key is aggregated
RlzsOfKeyFirst(a, key) ==
    IF a.rlzs_assoc[key] = <<>> THEN <<>> ELSE <<a.rlzs_assoc[key][1]>>

\* the list the loop "for rlz in self.rlzs_assoc[key]" runs over
RlzsOfKey(a, key) == a.rlzs_assoc[key]

\* for rlz in self.rlzs_assoc[key]: ad[rlz] = agg(ad.get(rlz, 0), value),
\* or agg(ad[rlz], value) in combine_curves
RECURSIVE CombineRlzLoop(_, _, _, _, _, _)
CombineRlzLoop(ad, a, refs, agg, value, method) ==
    IF refs = <<>> THEN ad
    ELSE LET rlz == a.heap[Head(refs)]
             prev == IF method = "combine" THEN AdGet(ad, rlz)
                     ELSE ad[Repr(rlz)]
         IN  CombineRlzLoop(DictSet(ad, Repr(rlz), Agg(agg, prev, value)),
                            a, Tail(refs), agg, value, method)

\* for key, value in results.iteritems(), in the order the dict yields its
\* keys.  st = [a: the RlzsAssoc, ad: the AccumDict]
RECURSIVE CombineLoop(_, _, _, _, _)
CombineLoop(st, results, agg, method, order) ==
    IF order = <<>> THEN st
    ELSE LET key == Head(order)
             a1 == [st.a EXCEPT !.rlzs_assoc = AssocLookup(@, key)]
         IN  CombineLoop(
               [a |-> a1,
                ad |-> CombineRlzLoop(st.ad, a1, RlzsOfKey(a1, key), agg,
                                      results[key], method)],
               results, agg, method, Tail(order))

\* {rlz: acc for rlz in rlzs}
RECURSIVE AccForAll(_, _)
AccForAll(rlzs, acc) ==
    IF rlzs = <<>> THEN EmptyDict
    ELSE DictSet(AccForAll(Tail(rlzs), acc), Repr(Head(rlzs)), acc)

\* RlzsAssoc.combine(results, agg): [a: the RlzsAssoc left, ad: the result]
combine(a, results, agg, order) ==
    CombineLoop([a |-> a, ad |-> EmptyDict], results, agg, "combine", order)

\* RlzsAssoc.combine_curves(results, agg, acc)
combine_curves(a, results, agg, acc, order) ==
    CombineLoop([a |-> a, ad |-> AccForAll(Realizations(a), acc)],
                results, agg, "combine_curves", order)

\* A tag is the sequence of its characters.

\* s.split(ch, 1)[0]: what comes before the first ch
RECURSIVE Before(_, _)
Before(str, ch) ==
    IF str = <<>> \/ Head(str) = ch THEN <<>>
    ELSE <<Head(str)>> \o Before(Tail(str), ch)

\* s.split(ch, 1)[1]: what comes after the first ch
RECURSIVE After(_, _)
After(str, ch) ==
    IF str = <<>> THEN <<>>
    ELSE IF Head(str) = ch THEN Tail(str)
    ELSE After(Tail(str), ch)

IsDigit(ch) == \E d \in 0..9 : ToString(d) = ch

\* int(s) for a string of digits
RECURSIVE IntOfDigits(_)
IntOfDigits(str) ==
    IF str = <<>> THEN 0
    ELSE 10 * IntOfDigits(SubSeq(str, 1, Len(str) - 1))
         + (CHOOSE d \in 0..9 : ToString(d) = str[Len(str)])

\* a slip: a tag that names no collection is taken as one of no collection
GetColIdOrNone(tag) ==
    LET head == Before(tag, "|")
        piece == Before(After(head, "="), "=")
    IN  IF piece = <<>> \/ \E i \in DOMAIN piece : ~IsDigit(piece[i])
        THEN [val |-> -1, err |-> ""]
        ELSE [val |-> IntOfDigits(piece), err |-> ""]

\* get_col_id(tag): [val, err]; a tag without '=' before its first '|' has
\* no second piece, and int refuses what is not a number
get_col_id(tag) ==
    LET head == Before(tag, "|")
        piece == Before(After(head, "="), "=")
    IN  IF \A i \in DOMAIN head : head[i] # "="
        THEN [val |-> 0, err |-> "IndexError"]
        ELSE IF piece = <<>> \/ \E i \in DOMAIN piece : ~IsDigit(piece[i])
        THEN [val |-> 0, err |-> "ValueError"]
        ELSE [val |-> IntOfDigits(piece), err |-> ""]

\* a slip: every realization is taken as one without collections
NoColIdsAlways(rlz) == TRUE

\* not rlz.col_ids
NoColIds(rlz) == rlz.col_ids = {}

\* ad[rlz] += gmf_by_tag on an AccumDict: the values of the tags already
\* there are added
AccumIAdd(acc, gmf_by_tag) ==
    [tag \in DOMAIN acc \cup DOMAIN gmf_by_tag |->
        IF tag \in DOMAIN acc /\ tag \in DOMAIN gmf_by_tag
        THEN RAdd(acc[tag], gmf_by_tag[tag])
        ELSE IF tag \in DOMAIN acc THEN acc[tag] ELSE gmf_by_tag[tag]]

\* for tag in gmf_by_tag: if get_col_id(tag) in rlz.col_ids:
\* ad[rlz][tag] = gmf_by_tag[tag]
RouteTags(acc, gmf_by_tag, rlz) ==
    LET tags == {tag \in DOMAIN gmf_by_tag :
                    get_col_id(tag).val \in rlz.col_ids}
    IN  [tag \in DOMAIN acc \cup tags |->
            IF tag \in tags THEN gmf_by_tag[tag] ELSE acc[tag]]

\* the exception of get_col_id on the tags, if any
TagError(gmf_by_tag) ==
    LET bad == {tag \in DOMAIN gmf_by_tag : get_col_id(tag).err # ""}
    IN  IF bad = {} THEN ""
        ELSE get_col_id(CHOOSE tag \in bad : TRUE).err

\* combine_gmfs: for rlz in self.rlzs_assoc[key]
RECURSIVE GmfsRlzLoop(_, _, _, _)
GmfsRlzLoop(st, a, refs, gmf_by_tag) ==
    IF refs = <<>> \/ st.err # "" THEN st
    ELSE LET rlz == a.heap[Head(refs)]
         IN  IF NoColIds(rlz)
             THEN GmfsRlzLoop(
                    [st EXCEPT !.ad = DictSet(@, Repr(rlz),
                                       AccumIAdd(st.ad[Repr(rlz)], gmf_by_tag))],
                    a, Tail(refs), gmf_by_tag)
             ELSE IF TagError(gmf_by_tag) # ""
             THEN [st EXCEPT !.err = TagError(gmf_by_tag)]
             ELSE GmfsRlzLoop(
                    [st EXCEPT !.ad = DictSet(@, Repr(rlz),
                                       RouteTags(st.ad[Repr(rlz)], gmf_by_tag,
                                                 rlz))],
                    a, Tail(refs), gmf_by_tag)

\* combine_gmfs: for key, gmf_by_tag in results.iteritems()
RECURSIVE GmfsLoop(_, _, _)
GmfsLoop(st, results, order) ==
    IF order = <<>> \/ st.err # "" THEN st
    ELSE LET key == Head(order)
             a1 == [st.a EXCEPT !.rlzs_assoc = AssocLookup(@, key)]
         IN  GmfsLoop(GmfsRlzLoop([st EXCEPT !.a = a1], a1, RlzsOfKey(a1, key),
                                  results[key]),
                      results, Tail(order))

\* RlzsAssoc.combine_gmfs(results): [a: the RlzsAssoc left, ad, err]
combine_gmfs(a, results, order) ==
    GmfsLoop([a |-> a, ad |-> AccForAll(Realizations(a), EmptyDict),
              err |-> ""],
             results, order)

\* the orders in which a dict can yield the keys S
RECURSIVE Perms(_)
Perms(S) ==
    IF S = {} THEN {<<>>}
    ELSE UNION {{<<x>> \o p : p \in Perms(S \ {x})} : x \in S}

-----------------------------------------------------------------------------
(* The inputs: composite source models over two tectonic region types *)

MaxModels == 2        \* source models of a composite model
MaxSamples == 2       \* samples of a source model
MaxNumSamples == 3    \* the configured number of samples

\* T1 with the GSIMs A, B, C and T2 with the GSIMs D, E
LtABCxDE ==
    GsimLt(AllTrts,
           [trt \in Range(AllTrts) |->
              IF trt = "T1"
              THEN <<Branch("b11", "A", <<1, 3>>), Branch("b12", "B", <<1, 3>>),
                     Branch("b13", "C", <<1, 3>>)>>
              ELSE <<Branch("b21", "D", <<1, 2>>), Branch("b22", "E", <<1, 2>>)>>])

\* T1 with the GSIM A alone and T2 with the GSIMs D, E of unequal weight
LtAxDE ==
    GsimLt(AllTrts,
           [trt \in Range(AllTrts) |->
              IF trt = "T1"
              THEN <<Branch("b11", "A", <<1, 1>>)>>
              ELSE <<Branch("b21", "D", <<1, 4>>), Branch("b22", "E", <<3, 4>>)>>])

Trees == {LtABCxDE, LtAxDE}
ModelWeights == {<<0, 1>>, <<1, 4>>, <<1, 2>>}

\* a sampled calculation: the tree and the seed of the job
SamplingSetups == {[gsim_lt |-> LtAxDE, seed |-> 0],
                   [gsim_lt |-> LtABCxDE, seed |-> 5]}

\* the TrtModels of a source model: its tectonic region types in TrtModel
\* order, each with its number of ruptures (0: nothing left of the type)
TrtShape(n1) == <<[trt |-> "T1", num_ruptures |-> n1]>>
TrtShapes(n1, n2) == <<[trt |-> "T1", num_ruptures |-> n1],
                       [trt |-> "T2", num_ruptures |-> n2]>>
Shapes == {TrtShape(0), TrtShape(2), TrtShapes(2, 2), TrtShapes(2, 0)}
SampledShapes == {TrtShape(0), TrtShapes(2, 2), TrtShapes(2, 0)}

\* what is drawn for one source model: with full enumeration every source
\* model stands for one path of the source model logic tree
EnumeratedInputs == [weight : ModelWeights, shape : Shapes, samples : {1}]
SampledInputs == [weight : {<<1, 2>>}, shape : SampledShapes,
                  samples : 1..MaxSamples]

\* the TrtModels get consecutive ids, over the whole composite model
RECURSIVE NumTrtModelsBefore(_, _)
NumTrtModelsBefore(inputs, m) ==
    IF m <= 1 THEN 0
    ELSE Len(inputs[m - 1].shape) + NumTrtModelsBefore(inputs, m - 1)

BuildSourceModel(inputs, m, gsim_lt) ==
    SourceModel("SM" \o ToString(m), inputs[m].weight, <<"b" \o ToString(m)>>,
                List([k \in DOMAIN inputs[m].shape |->
                        TrtModel(inputs[m].shape[k].trt,
                                 inputs[m].shape[k].num_ruptures,
                                 NumTrtModelsBefore(inputs, m) + k - 1)]),
                gsim_lt, m - 1, inputs[m].samples)

BuildSourceModels(inputs, gsim_lt) ==
    List([m \in DOMAIN inputs |-> BuildSourceModel(inputs, m, gsim_lt)])

BuildCsm(seed, num_samples, inputs, gsim_lt) ==
    CompositeSourceModel([seed |-> seed, num_samples |-> num_samples],
                         BuildSourceModels(inputs, gsim_lt))

NoCsm == <<>>
NoComb == <<>>
NoTm == TrtModel("", 0, 0)
NoPair == <<>>
NoProc == <<>>

\* a composite model for full enumeration
InitEnumerated ==
    \E gsim_lt \in Trees, k \in 1..MaxModels :
       \E inputs \in [1..k -> EnumeratedInputs] :
          csm = BuildCsm(0, 0, inputs, gsim_lt)

\* a composite model for sampling
InitSampled ==
    \E setup \in SamplingSetups, num_samples \in 1..MaxNumSamples,
       k \in 1..MaxModels :
       \E inputs \in [1..k -> SampledInputs] :
          csm = BuildCsm(setup.seed, num_samples, inputs, setup.gsim_lt)

\* a composite model for sampling whose source models have, together, as
\* many samples as the job asks for
InitSampledExact ==
    \E setup \in SamplingSetups, k \in 1..MaxModels :
       \E inputs \in [1..k -> SampledInputs] :
          csm = BuildCsm(setup.seed,
                         SumSeq([m \in 1..k |-> inputs[m].samples]),
                         inputs, setup.gsim_lt)

InitRest ==
    /\ input = csm
    /\ assoc = NoAssoc
    /\ first = <<>>
    /\ run = 0
    /\ err = ""
    /\ comb = NoComb
    /\ out = <<>>
    /\ tm = NoTm
    /\ pair = NoPair
    /\ proc = NoProc

Init == (InitEnumerated \/ InitSampled) /\ InitRest

Sampling == csm.source_model_lt.num_samples # 0

\* what a call of get_rlzs_assoc hands to its caller: the realizations in
\* order, or the exception
Outcome(r) == IF r.err = "" THEN [rlzs |-> Realizations(r.a), err |-> ""]
              ELSE [rlzs |-> <<>>, err |-> r.err]

\* assoc = c.get_rlzs_assoc(), where c is csm as it is now
CallGetRlzsAssoc(c) ==
    \E r \in {get_rlzs_assoc(c)} :
        /\ csm' = [c EXCEPT !.source_models = r.sms]
        /\ assoc' = IF r.err = "" THEN r.a ELSE NoAssoc
        /\ err' = r.err
        /\ first' = IF run = 0 THEN Outcome(r) ELSE first
        /\ out' = Outcome(r)
        /\ run' = run + 1
        /\ UNCHANGED <<comb, tm, input, pair, proc>>

\* the first call on the composite model
GetRlzsAssoc == run = 0 /\ CallGetRlzsAssoc(csm)

Next == GetRlzsAssoc

Spec == Init /\ [][Next]_vars

\* a call and then a second one, each on the composite model as it is now or,
\* a run of its own, on an equal composite model
GetRlzsAssocRerun == run \in {0, 1} /\ \E c \in {csm, input} : CallGetRlzsAssoc(c)

NextRerun == GetRlzsAssocRerun

InitRerun == InitSampledExact /\ InitRest

SpecRerun == InitRerun /\ [][NextRerun]_vars

\* out = csm.info.get_col_ids(rlz) for a realization of the association
GetColIds ==
    /\ run > 0 /\ err = ""
    /\ \E i \in DOMAIN Realizations(assoc) :
          out' = [op |-> "get_col_ids", rlz |-> Realizations(assoc)[i],
                  res |-> InfoGetColIds(csm.info, Realizations(assoc)[i])]
    /\ UNCHANGED <<csm, assoc, first, run, err, comb, tm, input, pair, proc>>

NextColIds == GetRlzsAssoc \/ GetColIds

SpecColIds == Init /\ [][NextColIds]_vars

-----------------------------------------------------------------------------
(* Aggregating results with the association *)

\* the last call of get_rlzs_assoc returned an association
Returned == run > 0 /\ err = ""

\* the doctest of combine: T1 with the GSIMs A, B, C in TrtModel 0 and T2
\* with the GSIMs D, E in TrtModel 1, fully enumerated
ExampleCsm ==
    BuildCsm(0, 0, <<[weight |-> <<1, 1>>, shape |-> TrtShapes(2, 2),
                      samples |-> 1]>>, LtABCxDE)

\* the composite models whose associations are used to aggregate
CombineCsms ==
    {ExampleCsm,
     BuildCsm(0, 0, <<[weight |-> <<1, 4>>, shape |-> TrtShapes(2, 2),
                       samples |-> 1],
                      [weight |-> <<1, 2>>, shape |-> TrtShape(2),
                       samples |-> 1]>>, LtAxDE),
     BuildCsm(0, 2, <<[weight |-> <<1, 2>>, shape |-> TrtShapes(2, 2),
                       samples |-> 2]>>, LtAxDE),
     BuildCsm(5, 3, <<[weight |-> <<1, 2>>, shape |-> TrtShape(0),
                       samples |-> 1],
                      [weight |-> <<1, 2>>, shape |-> TrtShapes(2, 0),
                       samples |-> 2]>>, LtABCxDE)}

InitCombine == csm \in CombineCsms /\ InitRest

\* a key of results that the association does not know
ForeignKey == <<9, "Z">>

Gsims == <<"A", "B", "C", "D", "E", "Z">>
GsimRank(gsim) == CHOOSE i \in DOMAIN Gsims : Gsims[i] = gsim

\* the value of a key in results: hundredths growing with the GSIM (0.01
\* for A to 0.05 for E in the first source model), or the probabilities
\* 1/2, 1/3, ...
ValueOf(scheme, key) ==
    IF scheme = "cent"
    THEN RNorm(GsimRank(key[2]) + 10 * (key[1] \div 2), 100)
    ELSE RNorm(1, GsimRank(key[2]) + 1 + key[1])

Results(keys, scheme) == [key \in keys |-> ValueOf(scheme, key)]

CombineCalls ==
    {[agg |-> "add", scheme |-> "cent"], [agg |-> "agg_prob", scheme |-> "inv"],
     [agg |-> "mean", scheme |-> "cent"]}
CurvesCalls ==
    {[agg |-> "agg_prob", scheme |-> "inv", acc |-> RZero],
     [agg |-> "add", scheme |-> "cent", acc |-> <<1, 2>>]}

\* the keys results can have
ResultKeys == SUBSET (DOMAIN assoc.rlzs_assoc \cup {ForeignKey})

\* out = assoc.combine(results, agg), the dict yielding its keys in order
Combine ==
    /\ Returned /\ comb = NoComb
    /\ \E call \in CombineCalls, keys \in ResultKeys :
       \E order \in Perms(keys) :
       \E r \in {combine(assoc, Results(keys, call.scheme), call.agg, order)} :
          /\ assoc' = r.a
          /\ out' = r.ad
          /\ comb' = [method |-> "combine", agg |-> call.agg, acc |-> RZero,
                      results |-> Results(keys, call.scheme), order |-> order]
    /\ UNCHANGED <<csm, first, run, err, tm, input, pair, proc>>

\* out = assoc.combine_curves(results, agg, acc)
CombineCurves ==
    /\ Returned /\ comb = NoComb
    /\ \E call \in CurvesCalls, keys \in ResultKeys :
       \E order \in Perms(keys) :
       \E r \in {combine_curves(assoc, Results(keys, call.scheme), call.agg,
                                call.acc, order)} :
          /\ assoc' = r.a
          /\ out' = r.ad
          /\ comb' = [method |-> "combine_curves", agg |-> call.agg,
                      acc |-> call.acc,
                      results |-> Results(keys, call.scheme), order |-> order]
    /\ UNCHANGED <<csm, first, run, err, tm, input, pair, proc>>

\* the tag of a rupture of a collection: 'col=%02d|%s' % (col_id, label)
MakeTag(col_id, label) ==
    <<"c", "o", "l", "=", ToString(col_id \div 10), ToString(col_id % 10),
      "|">> \o label

\* the labels of the ruptures; the text after the first '|' is free
Labels == {<<"r">>, <<"s", "=", "7">>}

\* the collections the tags name; the last one is allocated to no TrtModel
TagCols == {0, 1, 2, 3, 10}

\* tags that are no 'col=<int>|...': one without '=' before its first '|'
\* and one whose collection is no number
MalformedTags ==
    [untagged |-> <<"r", "u", "p", "|", "s", "=", "7">>,
     unnumbered |-> <<"c", "o", "l", "=", "x", "|", "r">>]

\* the ground motion fields of a key by tag: fields of every collection, or
\* of the collections of the parity of the TrtModel of the key, or those
\* and the fields of a malformed tag
GmfByTag(scheme, key) ==
    [tag \in {MakeTag(c, l) : c \in {d \in TagCols :
                                        scheme = "all" \/ d % 2 = key[1] % 2},
                              l \in Labels}
              \cup (IF scheme \in DOMAIN MalformedTags
                    THEN {MalformedTags[scheme]} ELSE {}) |->
        ValueOf("cent", key)]

GmfResults(keys, scheme) == [key \in keys |-> GmfByTag(scheme, key)]

\* out = assoc.combine_gmfs(results)
CombineGmfs ==
    /\ Returned /\ comb = NoComb
    /\ \E scheme \in {"all", "parity"} \cup DOMAIN MalformedTags,
          keys \in ResultKeys :
       \E order \in Perms(keys) :
       \E r \in {combine_gmfs(assoc, GmfResults(keys, scheme), order)} :
          /\ assoc' = r.a
          /\ out' = IF r.err = "" THEN r.ad ELSE <<>>
          /\ err' = r.err
          /\ comb' = [method |-> "combine_gmfs", agg |-> "", acc |-> RZero,
                      results |-> GmfResults(keys, scheme), order |-> order]
    /\ UNCHANGED <<csm, first, run, tm, input, pair, proc>>

\* out = assoc[key]: the lookup on the defaultdict
GetItem ==
    /\ Returned /\ comb = NoComb
    /\ \E key \in DOMAIN assoc.rlzs_assoc \cup {ForeignKey} :
       \E a \in {[assoc EXCEPT !.rlzs_assoc = AssocLookup(@, key)]} :
          /\ assoc' = a
          /\ out' = [i \in DOMAIN RlzsOfKey(a, key) |->
                       a.heap[RlzsOfKey(a, key)[i]]]
          /\ comb' = [method |-> "__getitem__", agg |-> "", acc |-> RZero,
                      results |-> [k \in {key} |-> RZero], order |-> <<key>>]
    /\ UNCHANGED <<csm, first, run, err, tm, input, pair, proc>>

NextCombine ==
    GetRlzsAssoc \/ Combine \/ CombineCurves \/ CombineGmfs \/ GetItem

SpecCombine == InitCombine /\ [][NextCombine]_vars

-----------------------------------------------------------------------------
(* Building the CompositionInfo and looking collections up *)

InfoMaxModels == 4    \* source models of a composite model

\* what is drawn for one source model: one or two TrtModels, one to three
\* samples
InfoInputs ==
    {[weight |-> <<1, 2>>, shape |-> TrtShape(2), samples |-> 1],
     [weight |-> <<1, 2>>, shape |-> TrtShapes(2, 2), samples |-> 1],
     [weight |-> <<1, 2>>, shape |-> TrtShape(2), samples |-> 2],
     [weight |-> <<1, 2>>, shape |-> TrtShapes(2, 2), samples |-> 3]}

\* the source models are read, the composite model is not built yet; input
\* holds the arguments of its constructor
InitInfo ==
    /\ \E k \in 1..InfoMaxModels :
       \E inputs \in [1..k -> InfoInputs] :
          input = [source_model_lt |->
                      [seed |-> 0,
                       num_samples |-> SumSeq([m \in 1..k |->
                                                 inputs[m].samples])],
                   source_models |-> BuildSourceModels(inputs, LtAxDE)]
    /\ csm = NoCsm
    /\ assoc = NoAssoc
    /\ first = <<>>
    /\ run = 0
    /\ err = ""
    /\ comb = NoComb
    /\ out = <<>>
    /\ tm = NoTm
    /\ pair = NoPair
    /\ proc = NoProc

\* csm = CompositeSourceModel(source_model_lt, source_models)
NewCompositeSourceModel ==
    /\ csm = NoCsm
    /\ csm' = CompositeSourceModel(input.source_model_lt, input.source_models)
    /\ UNCHANGED <<assoc, first, run, err, comb, out, tm, input, pair, proc>>

\* the arguments tried: every TrtModel id and one more, every sample index
\* and one more, every collection and one more
InfoTrtIds == 0..Cardinality({k[1] : k \in DOMAIN csm.info.col_dict})
InfoIdxs == 0..Cardinality({k[2] : k \in DOMAIN csm.info.col_dict})
InfoColIds == 0..csm.info.num_collections

\* out = csm.info.get_col_id(trt_id, idx)
GetColId ==
    /\ csm # NoCsm
    /\ \E trt_id \in InfoTrtIds, idx \in InfoIdxs :
          /\ err' = IF HasColId(csm.info, trt_id, idx) THEN "" ELSE "KeyError"
          /\ out' = [op |-> "get_col_id", trt_id |-> trt_id, idx |-> idx,
                     res |-> IF HasColId(csm.info, trt_id, idx)
                             THEN InfoGetColId(csm.info, trt_id, idx)
                             ELSE -1]
    /\ UNCHANGED <<csm, assoc, first, run, comb, tm, input, pair, proc>>

\* out = csm.info.get_trt_id(col_id)
GetTrtId ==
    /\ csm # NoCsm
    /\ \E col_id \in InfoColIds :
          IF InfoGetTrtIds(csm.info, col_id) = {}
          THEN /\ err' = "KeyError"
               /\ out' = [op |-> "get_trt_id", col_id |-> col_id, res |-> -1]
          ELSE /\ err' = ""
               /\ \E trt_id \in InfoGetTrtIds(csm.info, col_id) :
                     out' = [op |-> "get_trt_id", col_id |-> col_id,
                             res |-> trt_id]
    /\ UNCHANGED <<csm, assoc, first, run, comb, tm, input, pair, proc>>

NextInfo == NewCompositeSourceModel \/ GetColId \/ GetTrtId

SpecInfo == InitInfo /\ [][NextInfo]_vars

-----------------------------------------------------------------------------
(* Comparing and hashing two realizations *)

\* the realizations compared: same or different in ordinal, source model
\* path, GSIM path, weight and collections.  The paths <<"b1", "b2">> and
\* <<"b1_b2">> join to the same string; 1/3 and 0.33333 print the same.
EqRlzs ==
    {LtRealization(ordinal, sm_lt_path, gsim_rlz, weight, col_ids) :
        ordinal \in {0, 1},
        sm_lt_path \in {<<"b1">>, <<"b1", "b2">>, <<"b1_b2">>},
        gsim_rlz \in {IterRlzs(LtAxDE)[1], IterRlzs(LtAxDE)[2]},
        weight \in {<<1, 3>>, <<33333, 100000>>, <<1, 2>>},
        col_ids \in {{}, {1}}}

InitEq ==
    /\ pair \in EqRlzs \X EqRlzs
    /\ csm = NoCsm
    /\ input = NoCsm
    /\ assoc = NoAssoc
    /\ first = <<>>
    /\ run = 0
    /\ err = ""
    /\ comb = NoComb
    /\ out = <<>>
    /\ tm = NoTm
    /\ proc = NoProc

\* out = (pair[1] == pair[2])
CompareEq ==
    /\ pair # NoPair
    /\ out' = [op |-> "eq", res |-> RlzEq(pair[1], pair[2])]
    /\ UNCHANGED <<csm, assoc, first, run, err, comb, tm, input, pair, proc>>

\* out = (pair[1] != pair[2])
CompareNe ==
    /\ pair # NoPair
    /\ out' = [op |-> "ne", res |-> RlzNe(pair[1], pair[2])]
    /\ UNCHANGED <<csm, assoc, first, run, err, comb, tm, input, pair, proc>>

\* out = (hash(pair[1]), hash(pair[2]))
HashBoth ==
    /\ pair # NoPair
    /\ out' = [op |-> "hash", res |-> <<RlzHash(pair[1]), RlzHash(pair[2])>>]
    /\ UNCHANGED <<csm, assoc, first, run, err, comb, tm, input, pair, proc>>

NextEq == CompareEq \/ CompareNe \/ HashBoth

SpecEq == InitEq /\ [][NextEq]_vars

-----------------------------------------------------------------------------
(* Updating a TrtModel *)

MaxSources == 3       \* sources of a TrtModel

\* the sources handed to update
Sources ==
    {Source("src", trt, mags[1], mags[2]) :
        trt \in Range(AllTrts), mags \in {<<4, 5>>, <<5, 7>>, <<6, 6>>}}

\* tm = TrtModel(trt)
InitTrt ==
    /\ tm \in {TrtModel(trt, 0, 0) : trt \in Range(AllTrts)}
    /\ csm = NoCsm
    /\ input = NoCsm
    /\ assoc = NoAssoc
    /\ first = <<>>
    /\ run = 0
    /\ err = ""
    /\ comb = NoComb
    /\ out = <<>>
    /\ pair = NoPair
    /\ proc = NoProc

\* tm.update(src); out keeps the TrtModel as it was and the source
UpdateTrtModel ==
    /\ Len(tm.sources) < MaxSources
    /\ \E src \in Sources :
       \E r \in {Update(tm, src)} :
          /\ tm' = r.t
          /\ err' = r.err
          /\ out' = [before |-> tm, src |-> src]
    /\ UNCHANGED <<csm, assoc, first, run, comb, input, pair, proc>>

NextTrt == UpdateTrtModel

SpecTrt == InitTrt /\ [][NextTrt]_vars

-----------------------------------------------------------------------------
(* TrtModel.__init__ with an initial list of sources.  self.sources is the *)
(* list given, and the loop of __init__ iterates on it while update        *)
(* appends to it: run is the index the list iterator has reached.          *)

\* the longest list the memory holds
MaxListLen == 5

\* the lists of sources given to TrtModel(trt, sources)
InitialSources ==
    {<<>>} \cup {<<x>> : x \in Sources} \cup {<<x, y>> : x, y \in Sources}

\* TrtModel(trt, sources), up to the loop on self.sources
InitNew ==
    /\ input \in InitialSources
    /\ \E trt \in Range(AllTrts) :
          tm = [TrtModel(trt, 0, 0) EXCEPT !.sources = input]
    /\ csm = NoCsm
    /\ assoc = NoAssoc
    /\ first = <<>>
    /\ run = 0
    /\ err = ""
    /\ comb = NoComb
    /\ out = <<>>
    /\ pair = NoPair
    /\ proc = NoProc

\* next() on the iterator of self.sources
NextOfList(t, i) == t.sources[i]

\* for src in self.sources: self.update(src), one iteration; the list has
\* grown by one source when the iterator is asked again
NewTrtModelStep ==
    /\ out = <<>> /\ err = ""
    /\ run < Len(tm.sources)
    /\ IF Len(tm.sources) >= MaxListLen
       THEN /\ err' = "MemoryError"
            /\ UNCHANGED <<tm, run>>
       ELSE \E r \in {Update(tm, NextOfList(tm, run + 1))} :
               /\ tm' = r.t
               /\ err' = r.err
               /\ run' = IF r.err = "" THEN run + 1 ELSE run
    /\ UNCHANGED <<csm, assoc, first, comb, out, input, pair, proc>>

\* the iterator is exhausted and __init__ returns
NewTrtModelReturn ==
    /\ out = <<>> /\ err = ""
    /\ run = Len(tm.sources)
    /\ out' = <<"returned">>
    /\ UNCHANGED <<csm, assoc, first, run, err, comb, tm, input, pair, proc>>

NextNew == NewTrtModelStep \/ NewTrtModelReturn

SpecNew == InitNew /\ [][NextNew]_vars

-----------------------------------------------------------------------------
(* Reading the source models and building the composite model *)

\* the sources of the files read: a and b of T1 and T2, with their
\* magnitudes
FileSource(source_id, trt) ==
    Source(source_id, trt, IF trt = "T1" THEN 4 ELSE 5, 6)

\* the source model files: sources with distinct ids, in one TrtModel or
\* in two, and an id that occurs twice, in one TrtModel or in two
SourceFiles ==
    {<<FileSource("a", "T1")>>,
     <<FileSource("a", "T2"), FileSource("b", "T2")>>,
     <<FileSource("b", "T2"), FileSource("a", "T1")>>,
     <<FileSource("a", "T1"), FileSource("b", "T1"), FileSource("c", "T2")>>,
     <<FileSource("a", "T1"), FileSource("a", "T1")>>,
     <<FileSource("b", "T1"), FileSource("a", "T2"), FileSource("b", "T2")>>}

\* input holds the files of the source models, out the TrtModels parsed
InitParse ==
    /\ \E k \in 1..MaxModels : input \in [1..k -> SourceFiles]
    /\ csm = NoCsm
    /\ assoc = NoAssoc
    /\ first = <<>>
    /\ run = 0
    /\ err = ""
    /\ comb = NoComb
    /\ out = <<>>
    /\ tm = NoTm
    /\ pair = NoPair
    /\ proc = NoProc

\* trt_models = parse_source_model(fname, converter) for the next file; an
\* exception ends the build
ParseSourceModel ==
    /\ csm = NoCsm /\ err = "" /\ run < Len(input)
    /\ \E r \in {parse_source_model(input[run + 1])} :
          /\ err' = r.err
          /\ out' = IF r.err = "" THEN Append(out, r.trt_models) ELSE out
          /\ run' = IF r.err = "" THEN run + 1 ELSE run
    /\ UNCHANGED <<csm, assoc, first, comb, tm, input, pair, proc>>

\* the TrtModels parsed get consecutive ids, over the whole composite model
RECURSIVE NumParsedBefore(_, _)
NumParsedBefore(parsed, m) ==
    IF m <= 1 THEN 0
    ELSE Len(parsed[m - 1]) + NumParsedBefore(parsed, m - 1)

\* the source models of the files parsed
ParsedSourceModels(parsed) ==
    List([m \in DOMAIN parsed |->
            SourceModel("SM" \o ToString(m), <<1, 2>>, <<"b" \o ToString(m)>>,
                        List([k \in DOMAIN parsed[m] |->
                                [parsed[m][k] EXCEPT
                                   !.id = NumParsedBefore(parsed, m) + k - 1]]),
                        LtAxDE, m - 1, 1)])

\* csm = CompositeSourceModel(source_model_lt, source_models), once every
\* file is parsed
NewCompositeFromFiles ==
    /\ csm = NoCsm /\ err = "" /\ run = Len(input)
    /\ csm' = CompositeSourceModel([seed |-> 0, num_samples |-> 0],
                                   ParsedSourceModels(out))
    /\ UNCHANGED <<assoc, first, run, err, comb, out, tm, input, pair, proc>>

NextParse == ParseSourceModel \/ NewCompositeFromFiles

SpecParse == InitParse /\ [][NextParse]_vars

-----------------------------------------------------------------------------
(* filter_and_split and the SourceProcessor.  A source id is the sequence  *)
(* of its characters.  A source carries what its methods answer: its       *)
(* class, its number of ruptures, the number of sources split_source makes *)
(* of it (1: the source itself), whether it is near the sites, and whether *)
(* its geometry makes the filter or the split fail.                        *)

\* the characters of the source ids, in the order of their codes
Chars == <<"0", "1", "2", ":", "a", "b", "c">>

\* ord(ch)
Ord(ch) == CHOOSE i \in DOMAIN Chars : Chars[i] = ch

\* x < y on strings
RECURSIVE StrLt(_, _)
StrLt(x, y) ==
    IF y = <<>> THEN FALSE
    ELSE IF x = <<>> THEN TRUE
    ELSE IF Head(x) # Head(y) THEN Ord(Head(x)) < Ord(Head(y))
    ELSE StrLt(Tail(x), Tail(y))

None == <<>>

HazardSource(source_id, trt, source_class, num_ruptures, parts, near, bad) ==
    [source_id |-> source_id, tectonic_region_type |-> trt,
     mags |-> <<5, 6>>, source_class |-> source_class,
     num_ruptures |-> num_ruptures, trt_model_id |-> None, weight |-> None,
     parts |-> parts, near |-> near, bad |-> bad]

\* get_weight(src) with the default point_source_weight and num_ruptures
get_weight(src) ==
    IF src.source_class = "PointSource"
    THEN RMul(RNorm(src.num_ruptures, 1), RNorm(1, 40))
    ELSE RNorm(src.num_ruptures, 1)

\* sourceconverter.split_source: the source itself, or its parts, with ids
\* of their own; the parts of an area source are point sources
split_source(src) ==
    IF src.parts = 1 THEN <<src>>
    ELSE List([i \in 1..src.parts |->
                 [src EXCEPT
                    !.source_id = @ \o <<":", ToString(i - 1)>>,
                    !.source_class = IF @ = "AreaSource" THEN "PointSource"
                                     ELSE @,
                    !.parts = 1]])

SourceInfo(trt_model_id, source_id, source_class, sources, filter_time, split_time) ==
    [trt_model_id |-> trt_model_id, source_id |-> source_id,
     source_class |-> source_class, sources |-> sources,
     filter_time |-> filter_time, split_time |-> split_time]

NoInfo == <<>>

\* a slip: the weights of the sub-sources are not set
SubSourceAsIs(ss) == ss

\* ss.weight = get_weight(ss)
SubSource(ss) == [ss EXCEPT !.weight = get_weight(ss)]

\* a slip: a source on which the filter or the split fails is taken as a
\* source that left no sub-source
FilterAndSplitLenient(src, sitecol, filter_time, split_time) ==
    [info |-> SourceInfo(src.trt_model_id, src.source_id, src.source_class,
                         <<>>, filter_time, split_time),
     err |-> ""]

\* filter_and_split(src, sourceprocessor), the clock giving filter_time and
\* split_time: [info: the SourceInfo, err]
filter_and_split(src, sitecol, filter_time, split_time) ==
    IF src.bad THEN [info |-> NoInfo, err |-> "SourceError"]
    ELSE IF sitecol /\ ~src.near
    THEN [info |-> SourceInfo(src.trt_model_id, src.source_id,
                              src.source_class, <<>>, filter_time, 0),
          err |-> ""]
    ELSE LET parts == split_source(src)
         IN  [info |-> SourceInfo(src.trt_model_id, src.source_id,
                                  src.source_class,
                                  List([i \in DOMAIN parts |->
                                          SubSource(parts[i])]),
                                  IF sitecol THEN filter_time ELSE 0,
                                  split_time),
              err |-> ""]

\* acc + {key: sources} on an AccumDict of lists
AccumAdd(acc, key, sources) ==
    IF key \in DOMAIN acc THEN DictSet(acc, key, List(acc[key] \o sources))
    ELSE DictSet(acc, key, sources)

\* a slip: a source that left no sub-source is not recorded
OutsAppendSurvivors(outs, info) ==
    IF info.sources = <<>> THEN outs
    ELSE Append(outs, [trt_model_id |-> info.trt_model_id,
                       source_id |-> info.source_id,
                       source_class |-> info.source_class,
                       split_num |-> Len(info.sources),
                       filter_time |-> info.filter_time,
                       split_time |-> info.split_time])

\* agg_source_info: self.outs.append(...)
OutsAppend(outs, info) ==
    Append(outs, [trt_model_id |-> info.trt_model_id,
                  source_id |-> info.source_id,
                  source_class |-> info.source_class,
                  split_num |-> Len(info.sources),
                  filter_time |-> info.filter_time,
                  split_time |-> info.split_time])

\* SourceProcessor.agg_source_info(acc, out) on p = [outs, sources_by_trt]
agg_source_info(p, info) ==
    [p EXCEPT !.outs = OutsAppend(@, info),
              !.sources_by_trt = AccumAdd(@, info.trt_model_id, info.sources)]

\* a slip: the sources are compared by their tectonic region type
TrtKeyLt(x, y) == TrtLt(x.tectonic_region_type, y.tectonic_region_type)

\* the order of operator.attrgetter('source_id')
SourceIdLt(x, y) == StrLt(x.source_id, y.source_id)

\* sorted(sources, key=operator.attrgetter('source_id')): a stable sort
RECURSIVE InsertBySourceId(_, _)
InsertBySourceId(sorted, x) ==
    IF sorted = <<>> THEN <<x>>
    ELSE IF SourceIdLt(x, sorted[Len(sorted)])
    THEN Append(InsertBySourceId(SubSeq(sorted, 1, Len(sorted) - 1), x),
                sorted[Len(sorted)])
    ELSE Append(sorted, x)

RECURSIVE SortedBySourceId(_)
SortedBySourceId(sources) ==
    IF sources = <<>> THEN <<>>
    ELSE InsertBySourceId(
             SortedBySourceId(SubSeq(sources, 1, Len(sources) - 1)),
             sources[Len(sources)])

\* the order of key=lambda o: o[4] + o[5], reverse=True
TimeAfter(x, y) == x.filter_time + x.split_time > y.filter_time + y.split_time

\* self.outs.sort(key=lambda o: o[4] + o[5], reverse=True): a stable sort
RECURSIVE InsertByTime(_, _)
InsertByTime(sorted, x) ==
    IF sorted = <<>> THEN <<x>>
    ELSE IF TimeAfter(x, sorted[Len(sorted)])
    THEN Append(InsertByTime(SubSeq(sorted, 1, Len(sorted) - 1), x),
                sorted[Len(sorted)])
    ELSE Append(sorted, x)

RECURSIVE SortedByTime(_)
SortedByTime(outs) ==
    IF outs = <<>> THEN <<>>
    ELSE InsertByTime(SortedByTime(SubSeq(outs, 1, Len(outs) - 1)),
                      outs[Len(outs)])

\* a slip: a TrtModel without sub-sources keeps the sources it had
SourcesOrKept(sources_by_trt, trt_model) ==
    IF trt_model.id \in DOMAIN sources_by_trt
       /\ sources_by_trt[trt_model.id] # <<>>
    THEN sources_by_trt[trt_model.id] ELSE trt_model.sources

\* sources_by_trt.get(trt_model.id, [])
SourcesOf(sources_by_trt, trt_model) ==
    IF trt_model.id \in DOMAIN sources_by_trt
    THEN sources_by_trt[trt_model.id] ELSE <<>>

\* CompositeSourceModel.get_sources: the sources of the composite model as
\* it leaves them, each with the id of its TrtModel
TaggedTrtModel(trt_model) ==
    [trt_model EXCEPT !.sources =
        List([i \in DOMAIN trt_model.sources |->
                [trt_model.sources[i] EXCEPT !.trt_model_id = trt_model.id]])]

TaggedModels(c) ==
    List([m \in DOMAIN c.source_models |->
        [c.source_models[m] EXCEPT !.trt_models =
            List([k \in DOMAIN c.source_models[m].trt_models |->
                    TaggedTrtModel(c.source_models[m].trt_models[k])])]])

\* the TrtModels of a composite model, in order
TrtModelsOf(c) ==
    Flatten([m \in DOMAIN c.source_models |-> c.source_models[m].trt_models])

\* CompositeSourceModel.get_sources: the list returned
get_sources(c) ==
    LET tms == TrtModelsOf([c EXCEPT !.source_models = TaggedModels(c)])
    IN  Flatten([k \in DOMAIN tms |-> tms[k].sources])

\* a slip: the area sources go to the TaskManager as well
IsFastPoint(src) == src.source_class = "PointSource"

\* src.__class__.__name__ in ('PointSource', 'AreaSource')
IsFast(src) == src.source_class \in {"PointSource", "AreaSource"}

\* process: update trt_model.sources
ReplaceSources(c, sources_by_trt) ==
    List([m \in DOMAIN c.source_models |->
        [c.source_models[m] EXCEPT !.trt_models =
            List([k \in DOMAIN c.source_models[m].trt_models |->
                [c.source_models[m].trt_models[k] EXCEPT !.sources =
                    SortedBySourceId(
                        SourcesOf(sources_by_trt,
                                  c.source_models[m].trt_models[k]))]])]])

\* the source model files of the composite models processed: fault sources
\* that are split in two, an area source, a source far from the sites, and
\* sources on which the filter or the split fails
FaultsAndPoint ==
    <<HazardSource(<<"b">>, "T1", "SimpleFaultSource", 2, 2, TRUE, FALSE),
      HazardSource(<<"a">>, "T1", "ComplexFaultSource", 3, 1, TRUE, FALSE),
      HazardSource(<<"c">>, "T1", "PointSource", 4, 1, TRUE, FALSE)>>

AreaAndFar ==
    <<HazardSource(<<"a">>, "T1", "AreaSource", 2, 2, TRUE, FALSE),
      HazardSource(<<"b">>, "T2", "CharacteristicFaultSource", 1, 1,
                   FALSE, FALSE)>>

BadPoint ==
    <<HazardSource(<<"a">>, "T2", "PointSource", 1, 1, TRUE, TRUE),
      HazardSource(<<"b">>, "T2", "SimpleFaultSource", 1, 1, TRUE, FALSE)>>

BadFault ==
    <<HazardSource(<<"a">>, "T1", "SimpleFaultSource", 1, 1, TRUE, FALSE),
      HazardSource(<<"b">>, "T1", "SimpleFaultSource", 2, 1, TRUE, TRUE),
      HazardSource(<<"c">>, "T1", "PointSource", 1, 1, FALSE, FALSE)>>

ProcessInputs ==
    {<<FaultsAndPoint>>, <<AreaAndFar>>, <<FaultsAndPoint, AreaAndFar>>,
     <<BadPoint>>, <<BadFault>>, <<AreaAndFar, BadFault>>}

\* what the clock may give for the filter and for the split of a source
Durations == {0, 1}

\* the composite model of the files, as readinput builds it
CsmOfFiles(files) ==
    CompositeSourceModel(
        [seed |-> 0, num_samples |-> 0],
        ParsedSourceModels(List([m \in DOMAIN files |->
                                   parse_source_model(files[m]).trt_models])))

InitProcess ==
    /\ input \in ProcessInputs
    /\ csm = CsmOfFiles(input)
    /\ assoc = NoAssoc
    /\ first = <<>>
    /\ run = 0
    /\ err = ""
    /\ comb = NoComb
    /\ out = <<>>
    /\ tm = NoTm
    /\ pair = NoPair
    /\ proc = NoProc

\* process, up to the dispatch of the slow sources to the TaskManager: what
\* it does to the composite model and to the processor
Dispatch(sitecol) ==
    LET sources == get_sources(csm)
        fast == SelectSeq(sources, IsFast)
        slow == SelectSeq(sources, LAMBDA src : ~IsFast(src))
    IN  /\ csm' = [csm EXCEPT !.source_models = TaggedModels(csm)]
        /\ proc' = [pc |-> IF fast = <<>> THEN "collect" ELSE "sequential",
                    sitecol |-> sitecol, fast |-> fast, slow |-> slow,
                    next |-> 1, pending |-> DOMAIN slow, results |-> <<>>,
                    merged |-> 0, outs |-> <<>>, sources_by_trt |-> EmptyDict]
        /\ err' = ""

\* process, up to the dispatch of the slow sources to the TaskManager
StartProcess(sitecol) ==
    /\ Dispatch(sitecol)
    /\ UNCHANGED <<assoc, first, run, comb, out, tm, input, pair>>

\* SourceProcessor(sitecol, maxdist, asd).process(csm) is called
ProcessBegin == proc = NoProc /\ \E sitecol \in BOOLEAN : StartProcess(sitecol)

\* a slip: the task itself adds what it made to the records and to the
\* sub-sources of the processor
TaskDoneMerging ==
    /\ proc # NoProc /\ proc.pc \in {"sequential", "collect"}
    /\ \E i \in proc.pending :
       \E filter_time \in IF proc.sitecol THEN Durations ELSE {0},
          split_time \in Durations :
       \E r \in {filter_and_split(proc.slow[i], proc.sitecol,
                                  filter_time, split_time)} :
          proc' = [(IF r.err = "" THEN agg_source_info(proc, r.info)
                    ELSE proc) EXCEPT
                     !.pending = @ \ {i},
                     !.results = Append(@, r)]
    /\ UNCHANGED <<csm, assoc, first, run, err, comb, out, tm, input, pair>>

\* a task of the TaskManager ends: filter_and_split of a slow source; the
\* tasks end in any order, while the caller goes on
TaskDone ==
    /\ proc # NoProc /\ proc.pc \in {"sequential", "collect"}
    /\ \E i \in proc.pending :
       \E filter_time \in IF proc.sitecol THEN Durations ELSE {0},
          split_time \in Durations :
          proc' = [proc EXCEPT
                     !.pending = @ \ {i},
                     !.results = Append(@, filter_and_split(
                                     proc.slow[i], proc.sitecol,
                                     filter_time, split_time))]
    /\ UNCHANGED <<csm, assoc, first, run, err, comb, out, tm, input, pair>>

\* the single core processing, a fast source at a time; an exception of
\* filter_and_split ends the call
SequentialStep ==
    /\ proc # NoProc /\ proc.pc = "sequential"
    /\ \E filter_time \in IF proc.sitecol THEN Durations ELSE {0},
          split_time \in Durations :
       \E r \in {filter_and_split(proc.fast[proc.next], proc.sitecol,
                                  filter_time, split_time)} :
          IF r.err # ""
          THEN /\ err' = r.err
               /\ proc' = [proc EXCEPT !.pc = "failed"]
          ELSE /\ err' = err
               /\ proc' = [agg_source_info(proc, r.info) EXCEPT
                             !.next = @ + 1,
                             !.pc = IF proc.next = Len(proc.fast)
                                    THEN "collect" ELSE "sequential"]
    /\ UNCHANGED <<csm, assoc, first, run, comb, out, tm, input, pair>>

\* ss.reduce(self.agg_source_info): the next result, in the order in which
\* the tasks ended; the exception of a task ends the call
CollectStep ==
    /\ proc # NoProc /\ proc.pc = "collect"
    /\ proc.merged < Len(proc.results)
    /\ \E r \in {proc.results[proc.merged + 1]} :
          IF r.err # ""
          THEN /\ err' = r.err
               /\ proc' = [proc EXCEPT !.pc = "failed"]
          ELSE /\ err' = err
               /\ proc' = [agg_source_info(proc, r.info) EXCEPT
                             !.merged = @ + 1]
    /\ UNCHANGED <<csm, assoc, first, run, comb, out, tm, input, pair>>

\* the contents of the TrtModels of the composite model
Contents(c) ==
    LET tms == TrtModelsOf(c)
    IN  List([k \in DOMAIN tms |-> tms[k].sources])

\* process, once every result is in: csm.source_info is stored and the
\* sources of the TrtModels are replaced
FinishProcess ==
    /\ proc # NoProc /\ proc.pc = "collect"
    /\ proc.merged = Len(proc.slow)
    /\ \E c \in {[csm EXCEPT
                    !.source_info = SortedByTime(proc.outs),
                    !.source_models = ReplaceSources(csm,
                                                     proc.sources_by_trt)]} :
          /\ csm' = c
          /\ first' = IF run = 0 THEN Contents(c) ELSE first
    /\ proc' = [proc EXCEPT !.pc = "done", !.outs = <<>>]
    /\ run' = run + 1
    /\ UNCHANGED <<assoc, err, comb, out, tm, input, pair>>

NextProcess ==
    \/ ProcessBegin
    \/ TaskDone
    \/ SequentialStep
    \/ CollectStep
    \/ FinishProcess

SpecProcess == InitProcess /\ [][NextProcess]_vars

\* the files of the composite models processed twice: sources that
\* split_source leaves whole, out of the order of their ids, and a source
\* that is split next to one far from the sites
WholeSources ==
    <<HazardSource(<<"b">>, "T1", "SimpleFaultSource", 2, 1, TRUE, FALSE),
      HazardSource(<<"a">>, "T1", "PointSource", 4, 1, TRUE, FALSE)>>

WholeArea ==
    <<HazardSource(<<"a">>, "T1", "AreaSource", 1, 1, TRUE, FALSE)>>

SplitAndFar ==
    <<HazardSource(<<"b">>, "T1", "SimpleFaultSource", 2, 2, TRUE, FALSE),
      HazardSource(<<"a">>, "T1", "PointSource", 1, 1, FALSE, FALSE)>>

ReprocessInputs == {<<WholeSources>>, <<WholeArea, WholeSources>>, <<SplitAndFar>>}

InitReprocess ==
    /\ input \in ReprocessInputs
    /\ csm = CsmOfFiles(input)
    /\ assoc = NoAssoc
    /\ first = <<>>
    /\ run = 0
    /\ err = ""
    /\ comb = NoComb
    /\ out = <<>>
    /\ tm = NoTm
    /\ pair = NoPair
    /\ proc = NoProc

\* the same SourceProcessor processes the composite model a second time
ProcessAgain ==
    /\ proc # NoProc /\ proc.pc = "done" /\ run = 1
    /\ StartProcess(proc.sitecol)

NextReprocess ==
    \/ ProcessBegin
    \/ TaskDone
    \/ SequentialStep
    \/ CollectStep
    \/ FinishProcess
    \/ ProcessAgain

SpecReprocess == InitReprocess /\ [][NextReprocess]_vars

-----------------------------------------------------------------------------
(* CompositeSourceModel.count_ruptures *)

\* a slip: the ruptures are counted anew in every call
NeedsCountAlways(trt_model, really) == TRUE

\* trt_model.num_ruptures == 0 or really
NeedsCount(trt_model, really) == trt_model.num_ruptures = 0 \/ really

\* sum(src.count_ruptures() for src in trt_model)
SumRuptures(sources) ==
    SumSeq([i \in DOMAIN sources |-> sources[i].num_ruptures])

\* CompositeSourceModel.count_ruptures(really): the source models it leaves
count_ruptures(c, really) ==
    List([m \in DOMAIN c.source_models |->
        [c.source_models[m] EXCEPT !.trt_models =
            List([k \in DOMAIN c.source_models[m].trt_models |->
                LET trt_model == c.source_models[m].trt_models[k]
                IN  IF NeedsCount(trt_model, really)
                    THEN [trt_model EXCEPT
                            !.num_ruptures = SumRuptures(trt_model.sources)]
                    ELSE trt_model])]])

\* the files of the composite models counted: a source without ruptures
\* next to sources with ruptures
CountInputs ==
    {<<<<HazardSource(<<"a">>, "T1", "PointSource", 3, 1, TRUE, FALSE),
         HazardSource(<<"b">>, "T2", "SimpleFaultSource", 0, 1, TRUE, FALSE)>>>>,
     <<<<HazardSource(<<"a">>, "T1", "AreaSource", 2, 1, TRUE, FALSE)>>,
       <<HazardSource(<<"a">>, "T1", "AreaSource", 0, 1, TRUE, FALSE)>>>>}

\* the sources that are added to the TrtModels later on
LaterSources ==
    {HazardSource(<<"c">>, "T1", "PointSource", 2, 1, TRUE, FALSE),
     HazardSource(<<"c">>, "T2", "PointSource", 1, 1, TRUE, FALSE)}

MaxCounts == 2

InitCount ==
    /\ input \in CountInputs
    /\ csm = CsmOfFiles(input)
    /\ assoc = NoAssoc
    /\ first = <<>>
    /\ run = 0
    /\ err = ""
    /\ comb = NoComb
    /\ out = <<>>
    /\ tm = NoTm
    /\ pair = NoPair
    /\ proc = NoProc

\* csm.count_ruptures(really); first keeps the TrtModels as they were
CountRuptures ==
    /\ err = "" /\ run < MaxCounts
    /\ \E really \in BOOLEAN :
          /\ csm' = [csm EXCEPT !.source_models = count_ruptures(csm, really)]
          /\ out' = [op |-> "count_ruptures", really |-> really]
    /\ first' = TrtModelsOf(csm)
    /\ run' = run + 1
    /\ UNCHANGED <<assoc, err, comb, tm, input, pair, proc>>

\* trt_model.update(src) on a TrtModel of the composite model
UpdateSourceOf ==
    /\ err = ""
    /\ \E m \in DOMAIN csm.source_models, src \in LaterSources :
       \E k \in DOMAIN csm.source_models[m].trt_models :
          /\ Len(csm.source_models[m].trt_models[k].sources) < MaxSources
          /\ \E r \in {Update(csm.source_models[m].trt_models[k], src)} :
                /\ csm' = [csm EXCEPT
                             !.source_models[m].trt_models[k] = r.t]
                /\ err' = r.err
    /\ out' = <<>>
    /\ UNCHANGED <<assoc, first, run, comb, tm, input, pair, proc>>

NextCount == CountRuptures \/ UpdateSourceOf

SpecCount == InitCount /\ [][NextCount]_vars

-----------------------------------------------------------------------------
(* TrtModels built by hand, with any ids: a source model with a TrtModel   *)
(* for T1 and one for T2, sources added with update, and process.          *)

IdsOfTrtModels == {0, 1} \X {0, 1}

\* TrtModel(trt, id=id) followed by update(src)
TrtModelWith(trt, id, src) == Update(TrtModel(trt, 0, id), src).t

InitIds ==
    /\ input \in IdsOfTrtModels
    /\ csm = CompositeSourceModel(
                [seed |-> 0, num_samples |-> 0],
                <<SourceModel("SM1", <<1, 1>>, <<"b1">>,
                    <<TrtModelWith("T1", input[1],
                         HazardSource(<<"a">>, "T1", "SimpleFaultSource",
                                      2, 2, TRUE, FALSE)),
                      TrtModelWith("T2", input[2],
                         HazardSource(<<"b">>, "T2", "PointSource",
                                      1, 1, TRUE, FALSE))>>,
                    LtAxDE, 0, 1)>>)
    /\ assoc = NoAssoc
    /\ first = <<>>
    /\ run = 0
    /\ err = ""
    /\ comb = NoComb
    /\ out = <<>>
    /\ tm = NoTm
    /\ pair = NoPair
    /\ proc = NoProc

\* trt_model.update(src), before process is called or after it returned
UpdateBetweenCalls ==
    /\ IF proc = NoProc THEN TRUE ELSE proc.pc = "done"
    /\ UpdateSourceOf

\* SourceProcessor(None, maxdist, asd).process(csm) is called; pair keeps
\* the TrtModels as they are when it is called
ProcessBeginIds ==
    /\ proc = NoProc
    /\ Dispatch(FALSE)
    /\ pair' = TrtModelsOf(csm)
    /\ UNCHANGED <<assoc, first, run, comb, out, tm, input>>

NextIds ==
    \/ UpdateBetweenCalls
    \/ ProcessBeginIds
    \/ TaskDone
    \/ SequentialStep
    \/ CollectStep
    \/ FinishProcess

SpecIds == InitIds /\ [][NextIds]_vars

-----------------------------------------------------------------------------
(* Properties of get_rlzs_assoc *)

Rlzs == Realizations(assoc)

\* the sum of the weights of the realizations returned
WeightSum == RSum([i \in DOMAIN Rlzs |-> Rlzs[i].weight])

\* |x - 1| <= 1e-9
NearOne(x) ==
    LET d == RAbs(RSub(x, ROne))
    IN  d[1] = 0 \/ d[2] \div d[1] >= 1000000000

\* the source model that produced the realizations of an entry of
\* rlzs_by_smodel
OwningModel(entry) ==
    csm.source_models[CHOOSE m \in DOMAIN csm.source_models :
                          csm.source_models[m].ordinal = entry.ordinal]

\* the realizations the source models produce together when sampled
NumSampled == SumSeq([m \in DOMAIN csm.source_models |->
                        csm.source_models[m].samples])

\* C1 as stated: whenever get_rlzs_assoc returns normally, in sampling
\* and in full enumeration, the weights of the realizations sum to 1
\* (within 1e-9).
C1_SumIsOneAlways == Returned => NearOne(WeightSum)

\* C1 amended: whenever get_rlzs_assoc returns normally with at least one
\* realization, the weights of the realizations sum to 1 (within 1e-9);
\* when no source model contributes a realization the returned association
\* is empty and the sum is 0.
C1_SumIsOne ==
    Returned => IF Rlzs = <<>> THEN WeightSum = RZero
                ELSE NearOne(WeightSum)

\* a full enumeration of two source models whose weights were rescaled to
\* unequal values
C1_Witness ==
    /\ Returned /\ ~Sampling
    /\ Len(csm.source_models) = 2
    /\ \E i, j \in DOMAIN Rlzs : Rlzs[i].weight # Rlzs[j].weight
    /\ RSum([m \in DOMAIN csm.source_models |->
                csm.source_models[m].weight]) # ROne

\* the realizations of the composite model before their weights are
\* rescaled: the association as the loop on the source models leaves it
PreRlzs ==
    Realizations(GetRlzsLoop([a |-> RlzsAssocInit,
                              sms |-> input.source_models,
                              idx |-> 0, err |-> ""],
                             input.source_model_lt, input.info, 1).a)

PreWeightSum == RSum([i \in DOMAIN PreRlzs |-> PreRlzs[i].weight])

\* C12 as stated: in full enumeration, whenever the weights of the
\* realizations sum to zero before the normalization, be there realizations
\* or none, get_rlzs_assoc fails and returns no association.
C12_ZeroSumAlwaysFails ==
    (run > 0 /\ ~Sampling /\ PreWeightSum = RZero) =>
        err # "" /\ assoc = NoAssoc

\* C12 amended: in full enumeration, when there is at least one realization
\* and the weights sum to zero before the normalization, get_rlzs_assoc
\* fails with ValueError and returns no association; when there is no
\* realization at all it returns normally, with an empty association; a
\* nonzero sum never gives the ValueError.
C12_ZeroSumFails ==
    (run > 0 /\ ~Sampling) =>
        IF PreRlzs = <<>>
        THEN err = "" /\ assoc # NoAssoc /\ Rlzs = <<>>
        ELSE IF PreWeightSum = RZero
        THEN err = "ValueError" /\ assoc = NoAssoc
        ELSE err # "ValueError"

\* two source models of weight zero with realizations: the call failed
C12_Witness ==
    /\ run > 0 /\ ~Sampling
    /\ Len(csm.source_models) = 2
    /\ Len(PreRlzs) >= 2
    /\ PreWeightSum = RZero
    /\ err = "ValueError" /\ assoc = NoAssoc

\* the source models of the composite model that yield no realization: in
\* full enumeration, those whose reduced logic tree has no effective path
SkippedModels ==
    {m \in DOMAIN input.source_models :
        /\ ~Sampling
        /\ LET smodel == input.source_models[m]
           IN  get_effective_rlzs(Reduce(smodel.gsim_lt, LiveTrts(smodel)))
                  = <<>>}

\* the composite model without the source models that yield no
\* realization; the others keep their ordinals and their TrtModel ids
WithoutSkipped ==
    [input EXCEPT !.source_models =
        SelectSeq(input.source_models,
                  LAMBDA smodel :
                     \A m \in SkippedModels :
                        smodel.ordinal # input.source_models[m].ordinal)]

\* C17: a source model that yields no realization is skipped without an
\* error: the association has no entry for it in rlzs_by_smodel and no key
\* of the reverse index with one of its TrtModels, and the call ends as it
\* does on the composite model without it, with the same association.
C17_EmptyModelSkipped ==
    (run > 0 /\ SkippedModels # {}) =>
        /\ \E r \in {get_rlzs_assoc(WithoutSkipped)} :
              /\ err = r.err
              /\ err = "" => assoc = r.a
        /\ err = "" =>
              \A m \in SkippedModels :
                 /\ \A j \in DOMAIN assoc.rlzs_by_smodel :
                       assoc.rlzs_by_smodel[j].ordinal #
                          input.source_models[m].ordinal
                 /\ \A key \in DOMAIN assoc.rlzs_assoc :
                       \A k \in DOMAIN input.source_models[m].trt_models :
                          key[1] # input.source_models[m].trt_models[k].id

\* the first of two source models is skipped, and the second one gives the
\* realizations of the association, from ordinal 0 on
C17_Witness ==
    /\ Returned
    /\ SkippedModels = {1}
    /\ Len(input.source_models) = 2
    /\ Len(Rlzs) >= 2
    /\ Rlzs[1].ordinal = 0
    /\ Len(assoc.rlzs_by_smodel) = 1

\* the paths drawn for the m-th source model, in the order of the draws
DrawsOf(m) ==
    LET entries == SelectSeq(assoc.rlzs_by_smodel,
                             LAMBDA entry : entry.ordinal =
                                               csm.source_models[m].ordinal)
    IN  IF entries = <<>> THEN <<>>
        ELSE List([i \in DOMAIN entries[1].rlzs |->
                     assoc.heap[entries[1].rlzs[i]].gsim_rlz])

\* the paths a generator seeded with the seed of the job plus offset draws
\* for the m-th source model
DrawsWith(m, offset) ==
    sample(csm.source_models[m].gsim_lt, csm.source_models[m].samples,
           RandomSeeded(csm.source_model_lt.seed + offset))

\* the realizations of the source models that precede the m-th
RlzsBefore(m) ==
    SumSeq([j \in 1..(m - 1) |-> Len(DrawsOf(j))])

\* C21 as stated: in sampling mode the generator of every source model is
\* seeded with the seed of the job plus the ordinal of the model, however
\* many realizations the models before it gave.
C21_SeedPlusOrdinal ==
    (Sampling /\ Returned) =>
        \A m \in DOMAIN csm.source_models :
           DrawsOf(m) = DrawsWith(m, csm.source_models[m].ordinal)

\* C21 amended: in sampling mode the generator of every source model is
\* seeded with the seed of the job plus the number of realizations that the
\* models before it gave, which is the ordinal of its first realization;
\* this is the ordinal of the model only while every model before it gave
\* one realization.
C21_SeedPlusRlzsBefore ==
    (Sampling /\ Returned) =>
        \A m \in DOMAIN csm.source_models :
           /\ DrawsOf(m) = DrawsWith(m, RlzsBefore(m))
           /\ assoc.heap[assoc.rlzs_by_smodel[m].rlzs[1]].ordinal
                 = RlzsBefore(m)

\* the second source model comes after one sampled twice, and its path is
\* not the one the seed of the job plus its ordinal draws
C21_Witness ==
    /\ Sampling /\ Returned
    /\ Len(csm.source_models) = 2
    /\ csm.source_models[1].samples = 2
    /\ RlzsBefore(2) = 2
    /\ DrawsOf(2) # DrawsWith(2, csm.source_models[2].ordinal)

\* C2: in sampling mode with n samples configured, a normal return holds
\* exactly n realizations of weight 1/n each, and the call fails when the
\* source models produce another number of realizations.
C2_SampledCountAndWeight ==
    (Sampling /\ run > 0) =>
        LET n == csm.source_model_lt.num_samples
        IN  /\ err = "" => /\ Len(Rlzs) = n
                           /\ \A i \in DOMAIN Rlzs : Rlzs[i].weight = RNorm(1, n)
            /\ NumSampled # n => err = "AssertionError"

\* three realizations sampled from two source models, as many as asked for
C2_Witness ==
    /\ Sampling /\ Returned
    /\ Len(csm.source_models) = 2
    /\ csm.source_model_lt.num_samples = 3
    /\ Len(Rlzs) = 3

\* list.count(rlz): the elements of the list equal to the realization
CountIn(refs, ref) ==
    Cardinality({i \in DOMAIN refs :
                    RlzEq(assoc.heap[refs[i]], assoc.heap[ref])})

\* C3: every realization is, for every TrtModel of the source model that
\* produced it, in the list of exactly one key (TrtModel id, gsim) of the
\* reverse index, and once in that list.
C3_ReverseIndexComplete ==
    Returned =>
        \A j \in DOMAIN assoc.rlzs_by_smodel :
           \A ref \in Range(assoc.rlzs_by_smodel[j].rlzs) :
              \A g \in Range(OwningModel(assoc.rlzs_by_smodel[j]).trt_models) :
                 LET keys == {key \in DOMAIN assoc.rlzs_assoc :
                                 /\ key[1] = g.id
                                 /\ CountIn(assoc.rlzs_assoc[key], ref) > 0}
                 IN  /\ Cardinality(keys) = 1
                     /\ \A key \in keys :
                           CountIn(assoc.rlzs_assoc[key], ref) = 1

\* two source models, one of them with two TrtModels, and a key of the
\* index shared by several realizations
C3_Witness ==
    /\ Returned
    /\ Len(assoc.rlzs_by_smodel) = 2
    /\ \E m \in DOMAIN csm.source_models :
          Len(csm.source_models[m].trt_models) = 2
    /\ \E key \in DOMAIN assoc.rlzs_assoc : Len(assoc.rlzs_assoc[key]) >= 2

-----------------------------------------------------------------------------
(* Properties of combine and combine_curves *)

Combined == comb # NoComb

\* the realization is in the reverse-index list of the key
InListOf(key, rlz) ==
    /\ key \in DOMAIN assoc.rlzs_assoc
    /\ \E j \in DOMAIN assoc.rlzs_assoc[key] :
          RlzEq(assoc.heap[assoc.rlzs_assoc[key][j]], rlz)

\* the values of the keys of results that map to the realization, in the
\* order the keys were visited
ValuesFor(rlz) ==
    LET keys == SelectSeq(comb.order, LAMBDA key : InListOf(key, rlz))
    IN  [i \in DOMAIN keys |-> comb.results[keys[i]]]

\* agg(... agg(agg(acc, v1), v2) ..., vn)
RECURSIVE Fold(_, _, _)
Fold(agg, acc, vals) ==
    IF vals = <<>> THEN acc
    ELSE Fold(agg, Agg(agg, acc, Head(vals)), Tail(vals))

\* the results of the doctest and what it prints for r0 .. r5
ExampleResults ==
    [key \in {<<0, "A">>, <<0, "B">>, <<0, "C">>, <<1, "D">>, <<1, "E">>} |->
        RNorm(GsimRank(key[2]), 100)]
ExampleCombined ==
    <<RNorm(5, 100), RNorm(6, 100), RNorm(6, 100), RNorm(7, 100),
      RNorm(7, 100), RNorm(8, 100)>>

IsExample ==
    /\ Combined /\ comb.method = "combine" /\ comb.agg = "add"
    /\ input = ExampleCsm /\ comb.results = ExampleResults

\* C4: combine(results, agg) returns an entry for exactly the realizations
\* that some key of results maps to, and the entry of a realization is the
\* fold by agg, from 0, of the values of the keys of results whose list holds
\* the realization, each value once; on the T1{A,B,C} x T2{D,E} example with
\* addition it returns r0=0.05, r1=0.06, r2=0.06, r3=0.07, r4=0.07, r5=0.08.
C4_CombineFolds ==
    /\ (Combined /\ comb.method = "combine") =>
          /\ \A i \in DOMAIN Rlzs :
                IF ValuesFor(Rlzs[i]) = <<>>
                THEN Repr(Rlzs[i]) \notin DOMAIN out
                ELSE /\ Repr(Rlzs[i]) \in DOMAIN out
                     /\ out[Repr(Rlzs[i])] =
                            Fold(comb.agg, RZero, ValuesFor(Rlzs[i]))
          /\ DOMAIN out \subseteq {Repr(Rlzs[i]) : i \in DOMAIN Rlzs}
    /\ IsExample =>
          /\ Len(Rlzs) = 6
          /\ \A i \in 1..6 : out[Repr(Rlzs[i])] = ExampleCombined[i]

\* the doctest example combined with addition, the keys of T2 visited
\* before those of T1
C4_Witness ==
    /\ IsExample
    /\ comb.order[1][1] = 1
    /\ assoc.rlzs_assoc[<<0, "A">>] = <<1, 2>>
    /\ assoc.rlzs_assoc[<<1, "E">>] = <<2, 4, 6>>

CommutativeAggs == {"add", "agg_prob"}

\* the same call with the keys of results yielded in another order
Reordered(order) ==
    IF comb.method = "combine"
    THEN combine(assoc, comb.results, comb.agg, order).ad
    ELSE combine_curves(assoc, comb.results, comb.agg, comb.acc, order).ad

\* the keys by TrtModel id, then GSIM
RECURSIVE SortedKeys(_)
SortedKeys(S) ==
    IF S = {} THEN <<>>
    ELSE LET m == CHOOSE x \in S : \A y \in S :
                     \/ x[1] < y[1]
                     \/ x[1] = y[1] /\ GsimRank(x[2]) <= GsimRank(y[2])
         IN  <<m>> \o SortedKeys(S \ {m})

\* C5: with a commutative and associative aggregation function (addition,
\* composition of probabilities) combine and combine_curves return, in
\* whatever order the keys of results are visited, the dictionary they
\* return when the keys are visited in sorted order.
C5_OrderIndependent ==
    (Combined /\ comb.agg \in CommutativeAggs) =>
        out = Reordered(SortedKeys(DOMAIN comb.results))

\* probabilities composed by combine_curves over four keys or more, on
\* realizations that share keys, in an order in which the mean of the
\* values would come out differently
C5_Witness ==
    /\ Combined /\ comb.method = "combine_curves" /\ comb.agg = "agg_prob"
    /\ Len(comb.order) >= 4
    /\ \E key \in DOMAIN comb.results :
          key \in DOMAIN assoc.rlzs_assoc /\ Len(assoc.rlzs_assoc[key]) >= 2
    /\ comb.order # SortedKeys(DOMAIN comb.results)
    /\ combine(assoc, comb.results, "mean", comb.order).ad #
       combine(assoc, comb.results, "mean", SortedKeys(DOMAIN comb.results)).ad

-----------------------------------------------------------------------------
(* Properties of CompositionInfo *)

Built == csm # NoCsm

Info == csm.info

\* the collections of the source models before the m-th, and of all
RECURSIVE ColsBefore(_)
ColsBefore(m) ==
    IF m <= 1 THEN 0
    ELSE ColsBefore(m - 1) + csm.source_models[m - 1].samples *
                             Len(csm.source_models[m - 1].trt_models)

\* the collections of the oversampled source models before the m-th
RECURSIVE OversampledColsBefore(_)
OversampledColsBefore(m) ==
    IF m <= 1 THEN 0
    ELSE OversampledColsBefore(m - 1) +
         (IF csm.source_models[m - 1].samples > 1
          THEN csm.source_models[m - 1].samples *
               Len(csm.source_models[m - 1].trt_models)
          ELSE 0)

NumModels == Len(csm.source_models)

\* the ids of the TrtModels of a source model
ModelTrtIds(m) ==
    {csm.source_models[m].trt_models[k].id :
        k \in DOMAIN csm.source_models[m].trt_models}

\* the pairs (TrtModel id, sample index) of a source model
ModelPairs(m) ==
    ModelTrtIds(m) \X (0..(csm.source_models[m].samples - 1))

\* the source models with more than one sample
Oversampled ==
    {m \in DOMAIN csm.source_models : csm.source_models[m].samples > 1}

SampleCounts ==
    [m \in DOMAIN csm.source_models |-> csm.source_models[m].samples]

\* C6 as stated: collection ids are allocated only for the source models
\* with more than one sample: num_collections is the sum, over the
\* oversampled models, of samples x number of TrtModels, and the other
\* models receive no collection id.
C6_OnlyOversampled ==
    Built =>
        /\ Info.num_collections = OversampledColsBefore(NumModels + 1)
        /\ DOMAIN Info.col_dict = UNION {ModelPairs(m) : m \in Oversampled}

\* C6 amended: collection ids are allocated for every TrtModel of every
\* source model, one per sample: num_collections is the sum, over all the
\* source models, of samples x number of TrtModels (for sample counts
\* [1, 3, 1, 2]: groups(0) + 3*groups(1) + groups(2) + 2*groups(3)), and the
\* pairs with a collection id are the (TrtModel id, sample index) of all
\* models; only the recorded numbers of samples are kept for the
\* oversampled models alone.
C6_AllModels ==
    Built =>
        /\ Info.num_collections = ColsBefore(NumModels + 1)
        /\ DOMAIN Info.col_dict =
              UNION {ModelPairs(m) : m \in DOMAIN csm.source_models}
        /\ DOMAIN Info.num_samples =
              UNION {ModelTrtIds(m) : m \in Oversampled}
        /\ SampleCounts = <<1, 3, 1, 2>> =>
              Info.num_collections =
                  Len(csm.source_models[1].trt_models) +
                  3 * Len(csm.source_models[2].trt_models) +
                  Len(csm.source_models[3].trt_models) +
                  2 * Len(csm.source_models[4].trt_models)

\* four source models with the sample counts [1, 3, 1, 2]; the models with
\* one sample hold collections
C6_Witness ==
    /\ Built
    /\ SampleCounts = <<1, 3, 1, 2>>
    /\ ModelPairs(1) \subseteq DOMAIN Info.col_dict
    /\ Info.num_collections > OversampledColsBefore(NumModels + 1)

\* the collection of the idx-th sample of the k-th TrtModel of the m-th
\* source model, counting the models, then their TrtModels, then the samples
ColIdInOrder(m, k, idx) ==
    ColsBefore(m) + (k - 1) * csm.source_models[m].samples + idx

\* C7: the collection ids are the integers 0 .. num_collections - 1,
\* assigned in source-model order, then TrtModel order, then sample-index
\* order; (TrtModel id, sample index) -> collection id is one to one and
\* onto that range, get_col_id returns the collection of an allocated pair
\* and get_trt_id of the collection of the pair (g, i) returns g.
C7_ContiguousBijection ==
    Built =>
        /\ {Info.col_dict[x] : x \in DOMAIN Info.col_dict} =
              0..(Info.num_collections - 1)
        /\ \A x, y \in DOMAIN Info.col_dict :
              Info.col_dict[x] = Info.col_dict[y] => x = y
        /\ \A m \in DOMAIN csm.source_models :
           \A k \in DOMAIN csm.source_models[m].trt_models :
           \A idx \in 0..(csm.source_models[m].samples - 1) :
              Info.col_dict[<<csm.source_models[m].trt_models[k].id, idx>>] =
                  ColIdInOrder(m, k, idx)
        /\ (out # <<>> /\ out.op = "get_col_id"
              /\ <<out.trt_id, out.idx>> \in DOMAIN Info.col_dict) =>
              err = "" /\ out.res = Info.col_dict[<<out.trt_id, out.idx>>]
        /\ (out # <<>> /\ out.op = "get_trt_id") =>
              \A x \in DOMAIN Info.col_dict :
                 Info.col_dict[x] = out.col_id => err = "" /\ out.res = x[1]

\* get_trt_id on the collection of the last sample of the second TrtModel
\* of an oversampled source model that is not the first
C7_Witness ==
    /\ Built /\ out # <<>> /\ out.op = "get_trt_id" /\ err = ""
    /\ \E m \in DOMAIN csm.source_models :
          /\ m > 1
          /\ csm.source_models[m].samples = 3
          /\ Len(csm.source_models[m].trt_models) = 2
          /\ out.res = csm.source_models[m].trt_models[2].id
          /\ out.col_id = ColIdInOrder(m, 2, 2)

-----------------------------------------------------------------------------
(* Properties of LtRealization *)

Compared == out # <<>> /\ pair # NoPair

SameUid == Uid(pair[1]) = Uid(pair[2])

\* the two print the same: ordinal, uid, printed weight and collections
SameRepr ==
    /\ pair[1].ordinal = pair[2].ordinal
    /\ SameUid
    /\ StrFloat(pair[1].weight) = StrFloat(pair[2].weight)
    /\ pair[1].col_ids = pair[2].col_ids

\* C9 as stated: two LtRealization objects are equal, and hash equal, if
\* and only if their uid (source model path plus GSIM path) matches,
\* whatever their ordinal, weight and collection ids.
C9_EqualIffUid ==
    Compared =>
        /\ out.op = "eq" => (out.res <=> SameUid)
        /\ out.op = "ne" => (out.res <=> ~SameUid)
        /\ (out.op = "hash" /\ SameUid) => out.res[1] = out.res[2]

\* C9 amended: two LtRealization objects are equal if and only if their
\* repr matches, that is if they have the same ordinal, the same uid, the
\* same printed weight and the same collection ids; != is the negation, and
\* equal objects have equal hashes.  Two realizations with the same uid and
\* different ordinals are not equal.
C9_EqualIffRepr ==
    Compared =>
        /\ out.op = "eq" => (out.res <=> SameRepr)
        /\ out.op = "ne" => (out.res <=> ~SameRepr)
        /\ (out.op = "hash" /\ SameRepr) => out.res[1] = out.res[2]

\* two objects that differ (in the path and in the weight as a number) and
\* compare equal
C9_Witness ==
    /\ Compared /\ out.op = "eq" /\ out.res
    /\ pair[1].sm_lt_path # pair[2].sm_lt_path
    /\ pair[1].weight # pair[2].weight

-----------------------------------------------------------------------------
(* Properties of TrtModel.update *)

Updated == out # <<>> /\ tm # NoTm

\* C10: update(src) with a source of another tectonic region type than the
\* TrtModel's fails and leaves sources, min_mag and max_mag as they were;
\* with a source of the same type it returns and src is the last of the
\* sources, after those that were there.
C10_UpdateChecksTrt ==
    Updated =>
        IF out.src.tectonic_region_type # out.before.trt
        THEN /\ err = "AssertionError"
             /\ tm.sources = out.before.sources
             /\ tm.min_mag = out.before.min_mag
             /\ tm.max_mag = out.before.max_mag
        ELSE /\ err = ""
             /\ tm.sources = Append(out.before.sources, out.src)

\* a source of another type refused by a TrtModel that holds two sources
C10_Witness ==
    /\ Updated /\ err = "AssertionError"
    /\ Len(tm.sources) = 2
    /\ out.src.tectonic_region_type # tm.trt
    /\ tm.min_mag # tm.max_mag

\* the collection a tag was made for, -1 for a tag made for none
TagCol(tag) ==
    IF \E c \in TagCols, l \in Labels : tag = MakeTag(c, l)
    THEN CHOOSE c \in TagCols : \E l \in Labels : tag = MakeTag(c, l)
    ELSE -1

\* the fields by tag of the keys of results that map to the realization, in
\* the order the keys were visited
GmfsFor(rlz) == ValuesFor(rlz)

\* the fields of the tag among the fields by tag gmfs, in order
FieldsOfTag(gmfs, tag) ==
    LET with == SelectSeq(gmfs, LAMBDA gmf : tag \in DOMAIN gmf)
    IN  [k \in DOMAIN with |-> with[k][tag]]

\* C18: combine_gmfs gives a realization with collections the fields of
\* those tags of its keys whose collection, read from the tag, is one of its
\* col_ids, and no other tag; it gives a realization without collections
\* the fields of every tag of its keys, all of them added up.
C18_GmfsRoutedByCollection ==
    (Combined /\ comb.method = "combine_gmfs" /\ err = "") =>
        \E rlzs \in {Rlzs} :
        \A i \in DOMAIN rlzs :
        \E gmfs \in {GmfsFor(rlzs[i])} :
           LET got == out[Repr(rlzs[i])]
               tags == UNION {DOMAIN gmfs[k] : k \in DOMAIN gmfs}
           IN  IF rlzs[i].col_ids # {}
               THEN /\ DOMAIN got =
                          {tag \in tags : TagCol(tag) \in rlzs[i].col_ids}
                    /\ \A tag \in DOMAIN got :
                          got[tag] = FieldsOfTag(gmfs, tag)[
                                        Len(FieldsOfTag(gmfs, tag))]
               ELSE /\ DOMAIN got = tags
                    /\ \A tag \in tags :
                          got[tag] = RSum(FieldsOfTag(gmfs, tag))

\* a sampled realization with collections gets the fields of some tags of
\* its two keys and not those of others, among them a tag of a collection
\* of another realization
C18_Witness ==
    /\ Combined /\ comb.method = "combine_gmfs" /\ err = ""
    /\ \E i, j \in DOMAIN Rlzs :
          /\ Rlzs[i].col_ids # {} /\ Rlzs[j].col_ids # {}
          /\ Len(GmfsFor(Rlzs[i])) >= 2
          /\ DOMAIN out[Repr(Rlzs[i])] # {}
          /\ \E tag \in DOMAIN GmfsFor(Rlzs[i])[1] :
                /\ tag \notin DOMAIN out[Repr(Rlzs[i])]
                /\ tag \in DOMAIN out[Repr(Rlzs[j])]

\* every source of the list given has the tectonic region type of the
\* TrtModel
SameTrt ==
    \A i \in DOMAIN input : input[i].tectonic_region_type = tm.trt

\* the magnitudes of the TrtModel cover those of the list given
MagsCover ==
    /\ tm.min_mag # NoMag /\ tm.max_mag # NoMag
    /\ \A i \in DOMAIN input :
          tm.min_mag[1] <= input[i].mags[1] /\ input[i].mags[2] <= tm.max_mag[1]

\* C22 as stated: the construction of a TrtModel from a non-empty list of
\* sources of its tectonic region type ends by returning the TrtModel, it
\* never holds more than the sources given, and once returned its sources
\* are the given ones, each once and in their order, with min_mag and
\* max_mag covering them.
C22_NewTrtModelKeepsSources ==
    (input # <<>> /\ SameTrt /\ tm # NoTm) =>
        /\ err = ""
        /\ Len(tm.sources) <= Len(input)
        /\ out = <<"returned">> => tm.sources = input /\ MagsCover

\* what the code does: the list has doubled and the loop is not at its end
C22_Witness ==
    /\ input # <<>> /\ SameTrt /\ tm # NoTm
    /\ Len(input) = 2
    /\ tm.sources = input \o input
    /\ run = 2 /\ out = <<>>
    /\ MagsCover

-----------------------------------------------------------------------------
(* Properties of the build of a composite model *)

\* two sources of the list share their id
HasDuplicate(srcs) ==
    \E i, j \in DOMAIN srcs : i # j /\ srcs[i].source_id = srcs[j].source_id

\* all the sources of the files, in one list
AllFileSources == Flatten(input)

\* C11 as stated: a composite model is never built from files in which two
\* sources share their id, be they in the same TrtModel, in different
\* TrtModels or in different source models.
C11_NoSharedIdAnywhere == csm # NoCsm => ~HasDuplicate(AllFileSources)

\* C11 amended: parse_source_model fails with DuplicatedID exactly on a
\* source model in which two sources share their id, in the same TrtModel
\* or in different ones, and the build ends there, without a composite
\* model; two sources of different source models may share their id, and
\* the composite model is built.
C11_DuplicateInSourceModel ==
    /\ \A m \in 1..run : ~HasDuplicate(input[m])
    /\ err = "DuplicatedID" =>
          /\ csm = NoCsm
          /\ run < Len(input) /\ HasDuplicate(input[run + 1])
    /\ csm # NoCsm =>
          /\ run = Len(input)
          /\ \A m \in DOMAIN input :
                Flatten([k \in DOMAIN csm.source_models[m].trt_models |->
                           csm.source_models[m].trt_models[k].sources])
                   \in Perms(Range(input[m]))

\* the second source model repeats an id in another TrtModel and is
\* refused, after a first one that holds the same id was read
C11_Witness ==
    /\ err = "DuplicatedID" /\ run = 1
    /\ \E i, j \in DOMAIN input[2] :
          /\ input[2][i].source_id = input[2][j].source_id
          /\ input[2][i].tectonic_region_type #
             input[2][j].tectonic_region_type
    /\ \E i \in DOMAIN input[1] : input[1][i].source_id = input[2][1].source_id

-----------------------------------------------------------------------------
(* Properties of the SourceProcessor *)

\* process has returned
Processed == proc # NoProc /\ proc.pc = "done"

\* the sub-sources by TrtModel id when every source is filtered and split
\* in turn, the fast sources first
RECURSIVE AccumInTurn(_, _, _)
AccumInTurn(acc, sources, sitecol) ==
    IF sources = <<>> THEN acc
    ELSE LET info == filter_and_split(Head(sources), sitecol, 0, 0).info
         IN  AccumInTurn(AccumAdd(acc, info.trt_model_id, info.sources),
                         Tail(sources), sitecol)

\* the contents the TrtModels get when the tasks end in the order of their
\* dispatch
ContentsInTurn ==
    LET c == CsmOfFiles(input)
        sources == get_sources(c)
        acc == AccumInTurn(EmptyDict,
                           SelectSeq(sources, IsFast) \o
                           SelectSeq(sources, LAMBDA src : ~IsFast(src)),
                           proc.sitecol)
    IN  Contents([c EXCEPT !.source_models = ReplaceSources(c, acc)])

\* C13: whatever the order in which the parallel tasks end, among them and
\* with respect to the sequential pass, process leaves every TrtModel with
\* the same list of sources, in the same order: the one it gets when the
\* tasks end in the order of their dispatch.
C13_SameForEveryOrder == Processed => Contents(csm) = ContentsInTurn

\* two slow sources of one TrtModel whose tasks ended in the order opposite
\* to their dispatch
C13_Witness ==
    /\ Processed
    /\ Len(proc.slow) >= 2
    /\ proc.slow[1].trt_model_id = proc.slow[2].trt_model_id
    /\ proc.results[1].info.source_id = proc.slow[2].source_id
    /\ proc.results[2].info.source_id = proc.slow[1].source_id
    /\ proc.results[2].info.sources # <<>>

\* the TrtModels of the composite model before process was called
TrtModelsBefore == TrtModelsOf(CsmOfFiles(input))

\* the sub-sources that filter_and_split makes of the sources a TrtModel
\* had before process was called
SubSourcesOf(trt_model) ==
    UNION {Range(filter_and_split(TaggedTrtModel(trt_model).sources[i],
                                  proc.sitecol, 0, 0).info.sources) :
             i \in DOMAIN trt_model.sources}

\* no source of the list comes before a source that precedes it
OrderedBySourceId(sources) ==
    \A i, j \in DOMAIN sources :
       i < j => ~StrLt(sources[j].source_id, sources[i].source_id)

\* C14: after process every TrtModel of the composite model is still there,
\* with its id and its trt; its sources are the sub-sources accumulated for
\* its id, each once, in the order of their source ids; a TrtModel without
\* sub-sources is kept with an empty list, and no error is raised.
C14_TrtModelsKeptAndSorted ==
    Processed =>
        LET tms == TrtModelsOf(csm)
        IN  /\ err = ""
            /\ Len(csm.source_models) = Len(input)
            /\ \A m \in DOMAIN input :
                  Len(csm.source_models[m].trt_models) =
                  Len(CsmOfFiles(input).source_models[m].trt_models)
            /\ \A k \in DOMAIN tms :
                  /\ tms[k].id = TrtModelsBefore[k].id
                  /\ tms[k].trt = TrtModelsBefore[k].trt
                  /\ Range(tms[k].sources) =
                        Range(SourcesOf(proc.sources_by_trt, tms[k]))
                  /\ Len(tms[k].sources) =
                        Len(SourcesOf(proc.sources_by_trt, tms[k]))
                  /\ Range(tms[k].sources) = SubSourcesOf(TrtModelsBefore[k])
                  /\ Len(tms[k].sources) =
                        Cardinality(SubSourcesOf(TrtModelsBefore[k]))
                  /\ OrderedBySourceId(tms[k].sources)

\* a TrtModel left without sources, its only source being far from the
\* sites, next to a TrtModel whose sub-sources were accumulated in another
\* order than that of their ids
C14_Witness ==
    /\ Processed /\ proc.sitecol
    /\ \E k, l \in DOMAIN TrtModelsOf(csm) :
          /\ TrtModelsOf(csm)[k].sources = <<>>
          /\ TrtModelsBefore[k].sources # <<>>
          /\ Len(TrtModelsOf(csm)[l].sources) >= 3
          /\ TrtModelsOf(csm)[l].sources #
                proc.sources_by_trt[TrtModelsOf(csm)[l].id]

\* the sources of the composite model before process was called, as
\* get_sources lists them
SourcesBefore == get_sources(CsmOfFiles(input))

\* the records of csm.source_info for a source
RecordsOf(src) ==
    {i \in DOMAIN csm.source_info :
        /\ csm.source_info[i].trt_model_id = src.trt_model_id
        /\ csm.source_info[i].source_id = src.source_id}

\* C15: after process csm.source_info holds one record for every source the
\* composite model had, fast or slow, also for a source the filter dropped;
\* the record gives the class of the source and the number of sub-sources
\* made of it, and the records are in the order of filter_time + split_time,
\* the longest first.
C15_OneRecordPerSource ==
    Processed =>
        /\ Len(csm.source_info) = Len(SourcesBefore)
        /\ \A s \in DOMAIN SourcesBefore :
              /\ Cardinality(RecordsOf(SourcesBefore[s])) = 1
              /\ \A i \in RecordsOf(SourcesBefore[s]) :
                    /\ csm.source_info[i].source_class =
                          SourcesBefore[s].source_class
                    /\ csm.source_info[i].split_num =
                          Len(filter_and_split(SourcesBefore[s], proc.sitecol,
                                               0, 0).info.sources)
                    /\ csm.source_info[i].split_num =
                          Cardinality(
                             {x \in UNION {Range(Contents(csm)[k]) :
                                             k \in DOMAIN Contents(csm)} :
                                 /\ x.trt_model_id =
                                       SourcesBefore[s].trt_model_id
                                 /\ SubSeq(x.source_id, 1,
                                           Len(SourcesBefore[s].source_id)) =
                                       SourcesBefore[s].source_id})
        /\ \A i, j \in DOMAIN csm.source_info :
              i < j => csm.source_info[i].filter_time
                          + csm.source_info[i].split_time
                       >= csm.source_info[j].filter_time
                          + csm.source_info[j].split_time

\* a fast and a slow source, a source dropped by the filter and a source
\* split in two; the source recorded last took the longest
C15_Witness ==
    /\ Processed /\ proc.sitecol
    /\ \E i, j, k, l \in DOMAIN csm.source_info :
          /\ csm.source_info[i].split_num = 0
          /\ csm.source_info[j].split_num = 2
          /\ csm.source_info[k].source_class = "AreaSource"
          /\ csm.source_info[l].source_class = "SimpleFaultSource"
    /\ csm.source_info[1].filter_time + csm.source_info[1].split_time = 2
    /\ csm.source_info[1].source_id = proc.results[Len(proc.results)].info.source_id
    /\ csm.source_info[Len(csm.source_info)].split_time = 0

\* the call of process ended with an exception
ProcessFailed == proc # NoProc /\ proc.pc = "failed"

\* the contents of the TrtModels as get_sources leaves them
ContentsBefore ==
    LET c == CsmOfFiles(input)
    IN  Contents([c EXCEPT !.source_models = TaggedModels(c)])

\* C16: when filter_and_split fails on a source, in a task of the
\* TaskManager or in the sequential pass, process does not return: it ends
\* with that error, and then no TrtModel has got another list of sources
\* and csm.source_info is not set.
C16_FailureAppliesNothing ==
    /\ (\E s \in DOMAIN SourcesBefore : SourcesBefore[s].bad) => ~Processed
    /\ ProcessFailed =>
          /\ err = "SourceError"
          /\ \E s \in DOMAIN SourcesBefore : SourcesBefore[s].bad
          /\ Contents(csm) = ContentsBefore
          /\ csm.source_info = <<>>
          /\ run = 0

\* the task of a slow source failed, after the results of a fast source and
\* of another task were merged
C16_Witness ==
    /\ ProcessFailed
    /\ proc.merged >= 1
    /\ proc.results[proc.merged + 1].err = "SourceError"
    /\ Len(proc.outs) >= 2
    /\ DOMAIN proc.sources_by_trt # {}
    /\ csm.source_info = <<>>

\* split_source leaves every source of the files whole
NonSubdividing == \A s \in DOMAIN SourcesBefore : SourcesBefore[s].parts = 1

\* the sources of the files as a TrtModel holds them once processed
\* without filter and without subdivision: with their weights
WithWeights(trt_model) ==
    {[src EXCEPT !.weight = IF src.source_class = "PointSource"
                            THEN RNorm(src.num_ruptures, 40)
                            ELSE RNorm(src.num_ruptures, 1)] :
       src \in Range(TaggedTrtModel(trt_model).sources)}

\* C20: process without sitecol and with a split_source that leaves every
\* source whole leaves every TrtModel with the sources it had, in the
\* order of their ids and with their weights; a second call of process
\* leaves the TrtModels as the first one did.
C20_ProcessIdempotent ==
    (Processed /\ ~proc.sitecol /\ NonSubdividing) =>
        \E tms \in {TrtModelsOf(csm)} :
           /\ Len(tms) = Len(TrtModelsBefore)
           /\ \A k \in DOMAIN tms :
                 /\ Range(tms[k].sources) = WithWeights(TrtModelsBefore[k])
                 /\ Len(tms[k].sources) = Len(TrtModelsBefore[k].sources)
                 /\ OrderedBySourceId(tms[k].sources)
           /\ run = 2 => Contents(csm) = first

\* the second call has returned; the first one had put the sources of a
\* TrtModel, a fast one and a slow one, in the order of their ids
C20_Witness ==
    /\ Processed /\ ~proc.sitecol /\ NonSubdividing
    /\ run = 2
    /\ proc.fast # <<>> /\ proc.slow # <<>>
    /\ \E k \in DOMAIN TrtModelsBefore :
          /\ Len(TrtModelsBefore[k].sources) >= 2
          /\ ~OrderedBySourceId(TrtModelsBefore[k].sources)
          /\ \A i \in DOMAIN first[k] : first[k][i].weight # None

-----------------------------------------------------------------------------
(* Properties of count_ruptures *)

\* count_ruptures has just been called
Counted == out # <<>> /\ out.op = "count_ruptures"

\* C19: count_ruptures(really) sets num_ruptures to the sum of the rupture
\* counts of the sources in the TrtModels whose num_ruptures was 0, and in
\* all of them when really is true; every other TrtModel keeps the number
\* it had, also when sources were added to it since; the sources are left
\* as they were.
C19_LazyCount ==
    Counted =>
        \E after \in {TrtModelsOf(csm)} :
           /\ Len(after) = Len(first)
           /\ \A k \in DOMAIN first :
                 /\ after[k].sources = first[k].sources
                 /\ after[k].id = first[k].id
                 /\ after[k].num_ruptures =
                       IF first[k].num_ruptures = 0 \/ out.really
                       THEN SumRuptures(first[k].sources)
                       ELSE first[k].num_ruptures

\* a call with really false: a TrtModel keeps a number that a later source
\* made stale, and one whose number was 0 is counted
C19_Witness ==
    /\ Counted /\ ~out.really
    /\ \E k, l \in DOMAIN first :
          /\ TrtModelsOf(csm)[k].num_ruptures # 0
          /\ TrtModelsOf(csm)[k].num_ruptures #
                SumRuptures(TrtModelsOf(csm)[k].sources)
          /\ first[l].num_ruptures = 0
          /\ TrtModelsOf(csm)[l].num_ruptures > 0

\* the references to the realizations of the m-th source model
RlzRefsOf(m) ==
    LET entries == {j \in DOMAIN assoc.rlzs_by_smodel :
                      assoc.rlzs_by_smodel[j].ordinal
                          = csm.source_models[m].ordinal}
    IN  IF entries = {} THEN <<>>
        ELSE assoc.rlzs_by_smodel[CHOOSE j \in entries : TRUE].rlzs

\* a list of realizations without their weights
Unweighted(rlzs) ==
    List([i \in DOMAIN rlzs |-> [rlzs[i] EXCEPT !.weight = RZero]])

\* C23: after get_rlzs_assoc the flat list of the realizations is the
\* concatenation of the lists of the source models, in the order of the
\* source models; the ordinal of the i-th realization (from 0) is i, also
\* when a source model contributes no realization; setting the weights
\* changes nothing but the weights; gsim_by_trt has one entry per
\* realization, at the index of its ordinal.
C23_FlatListInModelOrder ==
    Returned =>
        /\ RealizationRefs(assoc) =
              Flatten([m \in DOMAIN csm.source_models |-> RlzRefsOf(m)])
        /\ \A i \in DOMAIN Rlzs : Rlzs[i].ordinal = i - 1
        /\ Unweighted(Rlzs) = Unweighted(PreRlzs)
        /\ Len(assoc.gsim_by_trt) = Len(Rlzs)
        /\ \A m \in DOMAIN csm.source_models :
             \A k \in DOMAIN RlzRefsOf(m) :
                \E rlz \in {assoc.heap[RlzRefsOf(m)[k]]} :
                   assoc.gsim_by_trt[rlz.ordinal + 1] =
                      GsimByTrt(csm.source_models[m].gsim_lt, rlz.gsim_rlz)

\* two source models, the first without realizations: the realizations of
\* the second are numbered from 0, and their weights were rescaled
C23_Witness ==
    /\ Returned
    /\ Len(csm.source_models) = 2
    /\ RlzRefsOf(1) = <<>>
    /\ Len(RlzRefsOf(2)) >= 2
    /\ assoc.heap[RlzRefsOf(2)[1]].ordinal = 0
    /\ \E i \in DOMAIN Rlzs : Rlzs[i].weight # PreRlzs[i].weight

\* process has returned and no source was added since
JustProcessed ==
    /\ proc # NoProc /\ proc.pc = "done"
    /\ first = Contents(csm)

\* ss is one of the sub-sources that filter_and_split makes of the source
\* src of the TrtModel t
DerivedFrom(ss, src, t) ==
    ss \in Range(filter_and_split([src EXCEPT !.trt_model_id = t.id],
                                  proc.sitecol, 0, 0).info.sources)

\* C24 as stated: whatever the ids of the TrtModels, also when several have
\* the id 0, after any updates and process every source of a TrtModel has
\* the tectonic region type of the TrtModel, and when process has returned
\* every source of a TrtModel is a sub-source of a source the same TrtModel
\* held when process was called.
C24_SourcesStayInTheirTrtModel ==
    \A k \in DOMAIN TrtModelsOf(csm) :
       \E t \in {TrtModelsOf(csm)[k]} :
          /\ \A i \in DOMAIN t.sources :
                t.sources[i].tectonic_region_type = t.trt
          /\ JustProcessed =>
                \A i \in DOMAIN t.sources :
                   \E j \in DOMAIN pair[k].sources :
                      DerivedFrom(t.sources[i], pair[k].sources[j], pair[k])

\* both TrtModels have the id 0: after process the TrtModel of T1 holds the
\* point source of T2 as well
C24_Witness ==
    /\ JustProcessed
    /\ input = <<0, 0>>
    /\ TrtModelsOf(csm)[1].trt = "T1"
    /\ \E i \in DOMAIN TrtModelsOf(csm)[1].sources :
          /\ TrtModelsOf(csm)[1].sources[i].tectonic_region_type = "T2"
          /\ TrtModelsOf(csm)[1].sources[i].source_id = <<"b">>

\* the keys of results that name a malformed tag and map to a realization
\* with collections
KeysWithUnreadableTag ==
    {key \in DOMAIN comb.results :
        /\ DOMAIN comb.results[key] \cap Range(MalformedTags) # {}
        /\ key \in DOMAIN assoc.rlzs_assoc
        /\ \E i \in DOMAIN assoc.rlzs_assoc[key] :
              assoc.heap[assoc.rlzs_assoc[key][i]].col_ids # {}}

\* C25 as stated: combine_gmfs always returns, and the fields of a tag that
\* is no 'col=<int>|...' are left out of what a realization with
\* collections gets.
C25_MalformedTagDropped ==
    (Combined /\ comb.method = "combine_gmfs") =>
        /\ err = ""
        /\ \A i \in DOMAIN Rlzs :
              Rlzs[i].col_ids # {} =>
                 DOMAIN out[Repr(Rlzs[i])] \cap Range(MalformedTags) = {}

\* C25 amended: when a key of results maps to a realization with
\* collections and names a tag that is no 'col=<int>|...', combine_gmfs
\* fails, with IndexError for a tag without '=' before its first '|' and
\* with ValueError for a collection that is no number, and returns nothing;
\* in every other case it returns, and a realization without collections
\* gets the fields of a malformed tag like those of any tag.
C25_MalformedTagRaises ==
    (Combined /\ comb.method = "combine_gmfs") =>
        IF KeysWithUnreadableTag # {}
        THEN /\ out = <<>>
             /\ \A key \in KeysWithUnreadableTag :
                   err = IF MalformedTags.untagged \in DOMAIN comb.results[key]
                         THEN "IndexError" ELSE "ValueError"
        ELSE /\ err = ""
             /\ \A i \in DOMAIN Rlzs :
                   \A k \in DOMAIN GmfsFor(Rlzs[i]) :
                      Rlzs[i].col_ids = {} =>
                         DOMAIN GmfsFor(Rlzs[i])[k]
                            \subseteq DOMAIN out[Repr(Rlzs[i])]

\* a tag whose collection is no number, under a key of a realization with
\* collections: the call failed with ValueError
C25_Witness ==
    /\ Combined /\ comb.method = "combine_gmfs"
    /\ KeysWithUnreadableTag # {}
    /\ err = "ValueError"
    /\ \E key \in KeysWithUnreadableTag :
          MalformedTags.unnumbered \in DOMAIN comb.results[key]

\* get_col_ids was called on a realization of the association
GotColIds == Returned /\ out # <<>> /\ "op" \in DOMAIN out

\* the collections allocated to the TrtModels of the source model of the
\* path, a non-oversampled one
CollectionsOf(sm_lt_path) ==
    UNION {{InfoGetColId(csm.info, sm.trt_models[k].id, 0) :
              k \in DOMAIN sm.trt_models} :
             sm \in {x \in Range(csm.source_models) : x.path = sm_lt_path}}

\* C26 as stated: get_col_ids gives a realization without col_ids the
\* collections allocated to the TrtModels of its source model, whatever the
\* samples of the source models before it, and a realization with col_ids
\* its col_ids.
C26_ColIdsOfRealization ==
    GotColIds =>
        out.res = IF out.rlz.col_ids = {} THEN CollectionsOf(out.rlz.sm_lt_path)
                  ELSE out.rlz.col_ids

\* a source model with one sample after one with two: get_col_ids gives
\* the id of its TrtModel, which is not the collection allocated to it
C26_Witness ==
    /\ GotColIds
    /\ Len(csm.source_models) = 2
    /\ csm.source_models[1].samples = 2
    /\ csm.source_models[2].samples = 1
    /\ out.rlz.sm_lt_path = csm.source_models[2].path
    /\ out.rlz.col_ids = {}
    /\ out.res = {csm.source_models[2].trt_models[k].id :
                    k \in DOMAIN csm.source_models[2].trt_models}
    /\ out.res # CollectionsOf(out.rlz.sm_lt_path)

\* C27: after get_rlzs_assoc the col_ids of a realization are empty when
\* its source model has samples = 1; when it has more, they are the
\* collections get_col_id(g.id, i) of the TrtModels g of the source model,
\* i being the index of the draw of the realization within the source
\* model.
C27_ColIdsByDraw ==
    Returned =>
        \A m \in DOMAIN csm.source_models :
           \A k \in DOMAIN RlzRefsOf(m) :
              assoc.heap[RlzRefsOf(m)[k]].col_ids =
                 IF csm.source_models[m].samples = 1 THEN {}
                 ELSE {InfoGetColId(csm.info,
                                    csm.source_models[m].trt_models[g].id,
                                    k - 1) :
                         g \in DOMAIN csm.source_models[m].trt_models}

\* a source model with one sample and one with two samples and two
\* TrtModels: the second draw has two collections, not those of the first
C27_Witness ==
    /\ Returned
    /\ \E m, n \in DOMAIN csm.source_models :
          /\ csm.source_models[m].samples = 1
          /\ RlzRefsOf(m) # <<>>
          /\ csm.source_models[n].samples = 2
          /\ Len(RlzRefsOf(n)) = 2
          /\ Cardinality(assoc.heap[RlzRefsOf(n)[2]].col_ids) = 2
          /\ assoc.heap[RlzRefsOf(n)[2]].col_ids
                \cap assoc.heap[RlzRefsOf(n)[1]].col_ids = {}

\* the TrtModel and the id of the sources of a list
KeysOf(sources) ==
    [i \in DOMAIN sources |->
        <<sources[i].trt_model_id, sources[i].source_id>>]

\* the TrtModel and the id of the sources whose records are in infos
KeysOfInfos(infos) ==
    [i \in DOMAIN infos |-> <<infos[i].trt_model_id, infos[i].source_id>>]

\* the results of the tasks that ended without an exception
GoodResults == SelectSeq(proc.results, LAMBDA r : r.err = "")

\* C28: process hands the slow sources, those that are no PointSource and
\* no AreaSource, to the TaskManager before it filters and splits the first
\* fast source; it goes through the fast sources without waiting for a
\* task, and collects the results of the tasks only when the sequential
\* pass is over; every source is filtered and split once, a fast one in the
\* sequential pass and a slow one in a task.
C28_DispatchThenSequentialThenCollect ==
    proc # NoProc =>
        /\ proc.fast = SelectSeq(SourcesBefore,
                                 LAMBDA src : src.source_class
                                    \in {"PointSource", "AreaSource"})
        /\ proc.slow = SelectSeq(SourcesBefore,
                                 LAMBDA src : src.source_class
                                    \notin {"PointSource", "AreaSource"})
        /\ proc.pending \subseteq DOMAIN proc.slow
        /\ Len(proc.results) + Cardinality(proc.pending) = Len(proc.slow)
        /\ \A i, j \in DOMAIN GoodResults :
              i # j => KeysOfInfos([k \in DOMAIN GoodResults |->
                                      GoodResults[k].info])[i]
                       # KeysOfInfos([k \in DOMAIN GoodResults |->
                                        GoodResults[k].info])[j]
        /\ \A i \in DOMAIN GoodResults :
              \E k \in DOMAIN proc.slow \ proc.pending :
                 KeysOf(proc.slow)[k] =
                    <<GoodResults[i].info.trt_model_id,
                      GoodResults[i].info.source_id>>
        /\ proc.pc = "sequential" =>
              /\ proc.next \in 1..Len(proc.fast)
              /\ proc.merged = 0
              /\ KeysOfInfos(proc.outs) =
                    KeysOf(SubSeq(proc.fast, 1, proc.next - 1))
        /\ proc.pc = "collect" =>
              /\ proc.next = Len(proc.fast) + 1
              /\ proc.merged <= Len(proc.results)
              /\ KeysOfInfos(proc.outs) =
                    KeysOf(proc.fast)
                       \o KeysOfInfos([k \in 1..proc.merged |->
                                         proc.results[k].info])
        /\ proc.pc = "done" =>
              /\ proc.next = Len(proc.fast) + 1
              /\ proc.merged = Len(proc.slow)
              /\ proc.pending = {}

\* the sequential pass is over and every result that is in was merged: the
\* caller waits for the tasks that are still running
C28_Witness ==
    /\ proc # NoProc /\ proc.pc = "collect"
    /\ Len(proc.fast) >= 1
    /\ proc.merged = 1 /\ Len(proc.results) = 1
    /\ proc.pending # {}
    /\ \E src \in Range(proc.fast) : src.source_class = "AreaSource"

\* C29 as stated: the sub-sources by TrtModel and the list of records of
\* the processor hold something only once the results of the sequential
\* pass and those of all the tasks are there.
C29_MergedWhenAllResultsAreIn ==
    (proc # NoProc /\ proc.pc \in {"sequential", "collect"}
       /\ (proc.outs # <<>> \/ proc.sources_by_trt # EmptyDict)) =>
          /\ proc.next = Len(proc.fast) + 1
          /\ proc.pending = {}

\* C29 amended: the sub-sources by TrtModel and the list of records change
\* only in a step of the caller, which merges the result of a fast source
\* as soon as it has filtered and split it, tasks running or not, and the
\* result of a task once the sequential pass is over, one result at a time
\* as they come in; the end of a task changes neither of the two, nor the
\* composite model.
C29_MergedByTheCallerOnly ==
    [][(proc # NoProc /\ proc' # NoProc) =>
          /\ (proc'.outs # proc.outs
                \/ proc'.sources_by_trt # proc.sources_by_trt) =>
                /\ proc'.pending = proc.pending
                /\ proc'.results = proc.results
                /\ \/ /\ proc.pc = "sequential"
                      /\ proc'.next = proc.next + 1
                      /\ proc'.merged = proc.merged
                   \/ /\ proc.pc = "collect"
                      /\ proc.next = Len(proc.fast) + 1
                      /\ proc'.merged = proc.merged + 1
                      /\ proc.merged < Len(proc.results)
                   \/ /\ proc.pc = "collect" /\ proc'.pc = "done"
                      /\ proc'.outs = <<>>
                      /\ proc'.sources_by_trt = proc.sources_by_trt
          /\ proc'.pending # proc.pending =>
                /\ proc'.outs = proc.outs
                /\ proc'.sources_by_trt = proc.sources_by_trt
                /\ csm' = csm
                /\ Len(proc'.results) = Len(proc.results) + 1
      ]_vars

\* the record and the sub-sources of a fast source are merged while every
\* task is still running
C29_Witness ==
    /\ proc # NoProc /\ proc.pc = "sequential"
    /\ proc.outs # <<>> /\ proc.sources_by_trt # EmptyDict
    /\ proc.pending = DOMAIN proc.slow /\ proc.pending # {}
    /\ proc.results = <<>>

\* C30 as stated: combine, combine_curves, combine_gmfs and assoc[key]
\* leave the reverse index as it was, with its keys and their lists, also
\* when a key of results or the key looked up is not in the index.
C30_ReverseIndexUnchanged ==
    [][(comb = NoComb /\ comb' # NoComb) =>
          /\ DOMAIN assoc'.rlzs_assoc = DOMAIN assoc.rlzs_assoc
          /\ assoc'.rlzs_assoc = assoc.rlzs_assoc
          /\ Cardinality(DOMAIN assoc'.rlzs_assoc)
                = Cardinality(DOMAIN assoc.rlzs_assoc)
      ]_vars

\* a key that no TrtModel and GSIM of the composite model make was looked
\* up: it is in the reverse index now, with an empty list
C30_Witness ==
    /\ Combined /\ comb.method = "__getitem__"
    /\ comb.order = <<ForeignKey>>
    /\ out = <<>>
    /\ ForeignKey \in DOMAIN assoc.rlzs_assoc
    /\ assoc.rlzs_assoc[ForeignKey] = <<>>
    /\ Cardinality(DOMAIN assoc.rlzs_assoc) >= 3

====
